---- MODULE Spec2Model ----
(***************************************************************************)
(* A model of justamodel: the error tree (exceptions.py), the type         *)
(* descriptors (types.py), fields and models (model.py) and the dict/JSON  *)
(* serializers (serializer.py).                                            *)
(*                                                                         *)
(* Python objects that are mutated in place and shared by reference (the   *)
(* nodes of an error tree) live in a heap: a sequence of nodes, a node's   *)
(* identity being its index.  Python values that are only read are TLA+    *)
(* records tagged by their Python type.  An operation that may raise       *)
(* returns the exception it raises beside the heap it leaves.              *)
(***************************************************************************)
EXTENDS Integers, Sequences, FiniteSets, TLC

VARIABLES heap, ret

vars == <<heap, ret>>

(***************************************************************************)
(* Bounds of the model.                                                    *)
(***************************************************************************)
MaxNodes == 3

\* The value of a call, named once and used by what follows it.
With(v, K(_)) == K(v)

(***************************************************************************)
(* Exceptions.  ValidationError and ModelValidationError (its subclass)    *)
(* are the library's; TypeError and AttributeError are Python's.  An       *)
(* aggregate error is a reference to its node in the heap.                 *)
(***************************************************************************)
NoExc == [type |-> "none"]
ValidationError(msg) == [type |-> "ValidationError", msg |-> msg]
ModelValidationError(id) == [type |-> "ModelValidationError", id |-> id]
TypeError(msg) == [type |-> "TypeError", msg |-> msg]
AttributeError(msg) == [type |-> "AttributeError", msg |-> msg]

IsModelValidationError(e) == e.type = "ModelValidationError"
IsValidationError(e) == e.type \in {"ValidationError", "ModelValidationError"}

(***************************************************************************)
(* exceptions.py: ModelValidationError.  A node holds `errors`, the list   *)
(* of direct errors, and `field_errors`, the dict from a key to the id of  *)
(* the child node.                                                         *)
(***************************************************************************)
EmptyMap == [x \in {} |-> 0]

NewNode == [errors |-> <<>>, field_errors |-> EmptyMap]

\* ModelValidationError(): a fresh empty node, allocated at the end of the heap.
MVE_init(h) == [h |-> Append(h, NewNode), id |-> Len(h) + 1]

\* Puts the error in front of the errors recorded before.
add_error_prepend(h, self, error) == [h EXCEPT ![self].errors = <<error>> \o @]

add_error(h, self, error) == [h EXCEPT ![self].errors = Append(@, error)]

get_or_create_field(h, self, name) ==
  IF name \in DOMAIN h[self].field_errors
  THEN [h |-> h, id |-> h[self].field_errors[name]]
  ELSE LET a == MVE_init(h)
       IN [h |-> [a.h EXCEPT ![self].field_errors = (name :> a.id) @@ @],
           id |-> a.id]

\* add_field_error with the check for an existing child left out: the aggregate
\* silently replaces the child.
add_field_error_overwrite(h, self, name, error) ==
  IF IsModelValidationError(error)
  THEN [h |-> [h EXCEPT ![self].field_errors =
                 [k \in DOMAIN @ \cup {name} |-> IF k = name THEN error.id ELSE @[k]]],
        raised |-> NoExc]
  ELSE LET g == get_or_create_field(h, self, name)
       IN [h |-> add_error(g.h, g.id, error), raised |-> NoExc]

add_field_error(h, self, name, error) ==
  IF IsModelValidationError(error)
  THEN IF name \in DOMAIN h[self].field_errors
       THEN [h |-> h,
             raised |-> TypeError("Merging multiple model validation errors is not supported")]
       ELSE [h |-> [h EXCEPT ![self].field_errors = (name :> error.id) @@ @],
             raised |-> NoExc]
  ELSE LET g == get_or_create_field(h, self, name)
       IN [h |-> add_error(g.h, g.id, error), raised |-> NoExc]

(***************************************************************************)
(* A path is a Python str, modelled as the sequence of its characters;     *)
(* split(path) is path.split('.'): the maximal dot-free pieces, an empty   *)
(* piece between two dots and at either end.                               *)
(***************************************************************************)
RECURSIVE split(_)
split(path) ==
  IF \A i \in 1..Len(path) : path[i] # "."
  THEN <<path>>
  ELSE LET d == CHOOSE i \in 1..Len(path) :
                  path[i] = "." /\ \A j \in 1..(i - 1) : path[j] # "."
       IN <<SubSeq(path, 1, d - 1)>> \o split(SubSeq(path, d + 1, Len(path)))

\* for part in spath[:-1]: cur = cur.get_or_create_field(part)
RECURSIVE WalkCreate(_, _, _)
WalkCreate(h, cur, parts) ==
  IF parts = <<>>
  THEN [h |-> h, id |-> cur]
  ELSE LET g == get_or_create_field(h, cur, Head(parts))
       IN WalkCreate(g.h, g.id, Tail(parts))

add_path_error(h, self, path, error) ==
  IF path = <<>>
  THEN [h |-> add_error(h, self, error), raised |-> NoExc]
  ELSE LET spath == split(path)
           w == WalkCreate(h, self, SubSeq(spath, 1, Len(spath) - 1))
       IN add_field_error(w.h, w.id, spath[Len(spath)], error)

for_field(h, path, error) ==
  LET a == MVE_init(h)
      r == add_path_error(a.h, a.id, path, error)
  IN [h |-> r.h, id |-> a.id, raised |-> r.raised]

RECURSIVE WalkGet(_, _, _)
WalkGet(h, cur, parts) ==
  IF parts = <<>>
  THEN h[cur].errors
  ELSE IF Head(parts) \notin DOMAIN h[cur].field_errors
       THEN <<>>
       ELSE WalkGet(h, h[cur].field_errors[Head(parts)], Tail(parts))

get_errors(h, self, path) ==
  IF path = <<>> THEN h[self].errors ELSE WalkGet(h, self, split(path))

\* __bool__
MVE_bool(h, self) == h[self].errors # <<>> \/ DOMAIN h[self].field_errors # {}

(***************************************************************************)
(* Python values, tagged by their type.  A bool is an int (True == 1); a   *)
(* set holds its elements in the order it iterates them, no two equal; a   *)
(* dict holds its (key, value) pairs in insertion order, no two keys       *)
(* equal; a model instance holds its class and its attributes.             *)
(***************************************************************************)
PyNone == [k |-> "none"]
PyInt(n) == [k |-> "int", n |-> n]
PyBool(b) == [k |-> "bool", n |-> IF b THEN 1 ELSE 0]
\* A float with a whole value, n.0.
PyFloat(n) == [k |-> "float", n |-> n]
PyStr(s) == [k |-> "str", s |-> s]
PyList(xs) == [k |-> "list", xs |-> xs]
PySet(xs) == [k |-> "set", xs |-> xs]
PyDict(items) == [k |-> "dict", items |-> items]
PyModel(c, attrs) == [k |-> "model", c |-> c, attrs |-> attrs]

IsNone(v) == v.k = "none"
IsNumber(v) == v.k \in {"int", "bool"}

\* == on the values a dict key or a set element can be (hashable scalars).
KeyEq(a, b) ==
  IF IsNumber(a) /\ IsNumber(b) THEN a.n = b.n
  ELSE IF a.k # b.k THEN FALSE
  ELSE IF a.k = "str" THEN a.s = b.s
  ELSE a.k = "none"

\* key in d, d.get(key) and d[key] = value on the pairs of a dict.
DictHas(items, key) == \E i \in 1..Len(items) : KeyEq(items[i][1], key)
DictGet(items, key) ==
  IF DictHas(items, key)
  THEN items[CHOOSE i \in 1..Len(items) : KeyEq(items[i][1], key)][2]
  ELSE PyNone
DictSet(items, key, value) ==
  IF DictHas(items, key)
  THEN [i \in 1..Len(items) |->
          IF KeyEq(items[i][1], key) THEN <<items[i][1], value>> ELSE items[i]]
  ELSE Append(items, <<key, value>>)

\* len(value)
PyLen(v) ==
  IF v.k = "str" THEN Len(v.s)
  ELSE IF v.k = "dict" THEN Len(v.items)
  ELSE Len(v.xs)

(***************************************************************************)
(* types.py: the type descriptors.  A constraint that is not given is      *)
(* None.  The optional list of extra validators is left empty.             *)
(***************************************************************************)
BooleanType == [k |-> "BooleanType"]
IntType(min_value, max_value) ==
  [k |-> "IntType", min_value |-> min_value, max_value |-> max_value]
StringType(min_length, max_length) ==
  [k |-> "StringType", min_length |-> min_length, max_length |-> max_length]
ListType(item_type, min_length, max_length) ==
  [k |-> "ListType", item_type |-> item_type, min_length |-> min_length,
   max_length |-> max_length]
SetType(item_type, min_length, max_length) ==
  [k |-> "SetType", item_type |-> item_type, min_length |-> min_length,
   max_length |-> max_length]
DictType(key_type, value_type, min_length, max_length) ==
  [k |-> "DictType", key_type |-> key_type, value_type |-> value_type,
   min_length |-> min_length, max_length |-> max_length]
ModelType(model_class) == [k |-> "ModelType", model_class |-> model_class]

(***************************************************************************)
(* model.py: Field, and the model classes: those of tests/test_serializer,  *)
(* some with a constraint on a field so that its validation can fail, and  *)
(* classes for the cases those leave out (a subclass, a field named as the *)
(* type specifier, a model two levels deep).                               *)
(***************************************************************************)
type_default == [k |-> "type_default"]
Field(type, required, default) ==
  [type |-> type, required |-> required, default |-> default]

\* The classes declared with ModelMeta, each with its base.
ModelClasses ==
  {"Model", "TestModelA", "TestSubModelA", "TestModelB", "TestTaggedModel",
   "TestComposedModel",
   "TestComposedModel3", "TestIntListModel", "TestComposedModel4",
   "TestCountsModel", "TestComposedModel5", "TestOuterModel",
   "TestModel", "TestSubModel", "TestSubSubModelA"}

\* The polymorphic groups, declared with PolymorphicModelMeta.
PolymorphicModels == {"TestModelAB", "TestModelAT", "TestModelAE", "TestModelAS"}

bases(c) ==
  IF c \in {"Model", "PolymorphicModel"} THEN "object"
  ELSE IF c \in PolymorphicModels THEN "PolymorphicModel"
  ELSE IF c = "TestSubModelA" THEN "TestModelA"
  ELSE IF c = "TestSubModel" THEN "TestModel"
  ELSE IF c = "TestSubSubModelA" THEN "TestSubModelA"
  ELSE "Model"

\* The Field attributes of each class body, in the order they are written.
declared_fields(c) ==
  IF c = "TestModelA" THEN
    << <<"a_field", Field(StringType(PyNone, PyNone), TRUE, type_default)>>,
       <<"x", Field(IntType(PyInt(0), PyNone), TRUE, type_default)>> >>
  ELSE IF c = "TestSubModelA" THEN
    << <<"z", Field(IntType(PyNone, PyNone), FALSE, type_default)>> >>
  ELSE IF c = "TestModelB" THEN
    << <<"a_field", Field(IntType(PyNone, PyNone), TRUE, type_default)>>,
       <<"y", Field(IntType(PyNone, PyNone), TRUE, type_default)>> >>
  ELSE IF c = "TestTaggedModel" THEN
    << <<"type", Field(StringType(PyNone, PyNone), TRUE, type_default)>> >>
  ELSE IF c = "TestComposedModel" THEN
    << <<"name", Field(StringType(PyNone, PyNone), TRUE, type_default)>>,
       <<"submodel", Field(ModelType("TestModelA"), FALSE, type_default)>> >>
  ELSE IF c = "TestComposedModel3" THEN
    << <<"submodels",
         Field(ListType(ModelType("TestModelA"), PyNone, PyNone), TRUE, type_default)>> >>
  ELSE IF c = "TestIntListModel" THEN
    << <<"numbers",
         Field(ListType(IntType(PyInt(0), PyNone), PyNone, PyNone), TRUE, type_default)>> >>
  ELSE IF c = "TestComposedModel4" THEN
    << <<"submodels",
         Field(SetType(StringType(PyInt(1), PyNone), PyNone, PyNone), TRUE, type_default)>> >>
  ELSE IF c = "TestCountsModel" THEN
    << <<"counts",
         Field(DictType(StringType(PyInt(1), PyNone), IntType(PyInt(0), PyNone),
                        PyNone, PyNone), TRUE, type_default)>> >>
  ELSE IF c = "TestComposedModel5" THEN
    << <<"submodels",
         Field(DictType(StringType(PyNone, PyNone), ModelType("TestModelA"),
                        PyNone, PyNone), TRUE, type_default)>> >>
  ELSE IF c = "TestOuterModel" THEN
    << <<"inner", Field(ModelType("TestComposedModel"), TRUE, type_default)>> >>
  ELSE IF c = "TestModel" THEN
    << <<"a", Field(StringType(PyNone, PyNone), TRUE, type_default)>>,
       <<"b", Field(StringType(PyNone, PyNone), TRUE, PyStr("abc"))>> >>
  ELSE <<>>

\* cls.mro()
RECURSIVE mro(_)
mro(c) == IF c = "object" THEN <<"object">> ELSE <<c>> \o mro(bases(c))

Reversed(seq) == [i \in 1..Len(seq) |-> seq[Len(seq) + 1 - i]]

\* A re-declared key moves behind the keys that are there.
OrderedSet_moving(items, key, value) ==
  Append(SelectSeq(items, LAMBDA item : item[1] # key), <<key, value>>)

\* merged_fields[key] = field on an OrderedDict: a key already there keeps its place.
OrderedSet(items, key, value) ==
  IF \E i \in 1..Len(items) : items[i][1] = key
  THEN [i \in 1..Len(items) |-> IF items[i][1] = key THEN <<key, value>> ELSE items[i]]
  ELSE Append(items, <<key, value>>)

RECURSIVE OrderedUpdate(_, _)
OrderedUpdate(items, more) ==
  IF more = <<>> THEN items
  ELSE OrderedUpdate(OrderedSet(items, more[1][1], more[1][2]), Tail(more))

\* The loops of ModelMeta.__new__ over the declared_fields of the classes of
\* the reversed mro, given most basic class first: each key and field is set
\* on merged_fields.
RECURSIVE MergeDeclared(_, _)
MergeDeclared(merged, declared) ==
  IF declared = <<>> THEN merged
  ELSE MergeDeclared(OrderedUpdate(merged, declared[1]), Tail(declared))

\* ModelMeta.__new__: the declared fields of the classes of the mro, the most
\* basic class first, each overlaid on what came before.
MergeFields(merged, classes) ==
  MergeDeclared(merged, [i \in 1..Len(classes) |-> declared_fields(classes[i])])

fields(c) == MergeFields(<<>>, Reversed(mro(c)))

field_names(c) == With(fields(c), LAMBDA fs : {fs[i][1] : i \in 1..Len(fs)})

\* issubclass(c, d) for two ModelMeta classes.
IsSubclass(c, d) == \E i \in 1..Len(mro(c)) : mro(c)[i] = d

(***************************************************************************)
(* model.py: PolymorphicModel groups.                                      *)
(***************************************************************************)
types_to_model_classes(g) ==
  IF g = "TestModelAB" THEN << <<"a", "TestModelA">>, <<"b", "TestModelB">> >>
  ELSE IF g = "TestModelAT" THEN << <<"a", "TestModelA">>, <<"t", "TestTaggedModel">> >>
  ELSE IF g = "TestModelAE" THEN << <<"a", "TestModelA">> >>
  ELSE IF g = "TestModelAS" THEN << <<"a", "TestModelA">>, <<"s", "TestSubModelA">> >>
  ELSE <<>>

type_specifier_name(g) == IF g = "TestModelAE" THEN "" ELSE "type"

\* list.sort(key=lambda x: len(x[1].mro()), reverse=True): stable, the longest
\* mro first.
RECURSIVE InsertByMro(_, _)
InsertByMro(sorted, item) ==
  IF sorted = <<>> THEN <<item>>
  ELSE IF Len(mro(sorted[1][2])) >= Len(mro(item[2]))
       THEN <<sorted[1]>> \o InsertByMro(Tail(sorted), item)
       ELSE <<item>> \o sorted

RECURSIVE SortByMro(_, _)
SortByMro(sorted, items) ==
  IF items = <<>> THEN sorted
  ELSE SortByMro(InsertByMro(sorted, items[1]), Tail(items))

\* Leaves the items in the order of the dict.
types_to_model_classes_mro_unsorted(g) == types_to_model_classes(g)

\* PolymorphicModelMeta.__new__
types_to_model_classes_mro(g) == SortByMro(<<>>, types_to_model_classes(g))

\* Asks for the class itself in the place of issubclass.
get_model_type_for_class_exact(g, unknown_class) ==
  LET tm == types_to_model_classes_mro(g)
      hits == {i \in 1..Len(tm) : unknown_class = tm[i][2]}
  IN IF hits = {} THEN PyNone
     ELSE PyStr(tm[CHOOSE i \in hits : \A j \in hits : i <= j][1])

\* PolymorphicModel.get_model_type_for_class: the tag, or None.
get_model_type_for_class(g, unknown_class) ==
  LET tm == types_to_model_classes_mro(g)
      hits == {i \in 1..Len(tm) : IsSubclass(unknown_class, tm[i][2])}
  IN IF hits = {} THEN PyNone
     ELSE PyStr(tm[CHOOSE i \in hits : \A j \in hits : i <= j][1])

\* PolymorphicModel.get_model_class_for_type: types_to_model_classes.get(type_name),
\* the class or None.
PM_get_model_class_for_type(g, type_name) ==
  LET tm == types_to_model_classes(g)
      hits == {i \in 1..Len(tm) : KeyEq(PyStr(tm[i][1]), type_name)}
  IN IF hits = {} THEN "None" ELSE tm[CHOOSE i \in hits : TRUE][2]

\* isinstance(value, cls) for a model class or a polymorphic group (whose
\* __subclasshook__ accepts the classes that have a tag).
IsInstanceOfClass(value, cls) ==
  /\ value.k = "model"
  /\ IF cls \in PolymorphicModels
     THEN ~IsNone(get_model_type_for_class(cls, value.c))
     ELSE IsSubclass(value.c, cls)

(***************************************************************************)
(* Python's == on values.  Model.__eq__ answers NotImplemented for two     *)
(* instances of different classes, which == turns into False for two       *)
(* distinct objects; otherwise it compares the fields of the class.        *)
(***************************************************************************)
RECURSIVE PyEq(_, _)
RECURSIVE PyNe(_, _)

\* Model.__eq__ with isinstance in the place of the comparison of the types.
PyEq_isinstance(a, b) ==
  IF a.k = "model" /\ b.k = "model"
  THEN /\ IsSubclass(a.c, b.c) \/ IsSubclass(b.c, a.c)
       /\ \A name \in field_names(a.c) \cap field_names(b.c) :
            PyEq(a.attrs[name], b.attrs[name])
  ELSE a = b

PyEq(a, b) ==
  IF IsNumber(a) /\ IsNumber(b) THEN a.n = b.n
  ELSE IF a.k # b.k THEN FALSE
  ELSE IF a.k = "none" THEN TRUE
  ELSE IF a.k = "str" THEN a.s = b.s
  ELSE IF a.k = "list" THEN
    /\ Len(a.xs) = Len(b.xs)
    /\ \A i \in 1..Len(a.xs) : PyEq(a.xs[i], b.xs[i])
  ELSE IF a.k = "set" THEN
    /\ Len(a.xs) = Len(b.xs)
    /\ \A i \in 1..Len(a.xs) : \E j \in 1..Len(b.xs) : PyEq(a.xs[i], b.xs[j])
  ELSE IF a.k = "dict" THEN
    /\ Len(a.items) = Len(b.items)
    /\ \A i \in 1..Len(a.items) :
         /\ DictHas(b.items, a.items[i][1])
         /\ PyEq(a.items[i][2], DictGet(b.items, a.items[i][1]))
  ELSE IF a.k = "model" THEN
    /\ a.c = b.c
    /\ \A name \in field_names(a.c) : PyEq(a.attrs[name], b.attrs[name])
  ELSE FALSE

\* Python's != on values.  Model.__ne__ answers NotImplemented for two
\* instances of different classes, which != turns into True for two distinct
\* objects; otherwise it is true when a field of the class differs (!=).
\* The != of the other values is the negation of their ==.
PyNe(a, b) ==
  IF a.k = "model" /\ b.k = "model"
  THEN IF a.c # b.c THEN TRUE
       ELSE \E name \in field_names(a.c) : PyNe(a.attrs[name], b.attrs[name])
  ELSE ~PyEq(a, b)

(***************************************************************************)
(* types.py: validate.  A ValidationError carries what failed and the      *)
(* value it failed on.  Every validate returns the heap (Model.validate    *)
(* allocates an aggregate error) beside the exception raised.              *)
(***************************************************************************)

Failure(what, value) == ValidationError([what |-> what, value |-> value])
Returns(h) == [h |-> h, raised |-> NoExc]
Raises(h, exc) == [h |-> h, raised |-> exc]
Raised(r) == r.raised.type # "none"

\* type(value) is self.native_type for IntType: bool, a subclass of int, is
\* no int.
IsInstance_strict(value, t) ==
  IF t.k = "BooleanType" THEN value.k = "bool"
  ELSE IF t.k = "IntType" THEN value.k = "int"
  ELSE IF t.k = "StringType" THEN value.k = "str"
  ELSE IF t.k = "ListType" THEN value.k = "list"
  ELSE IF t.k = "SetType" THEN value.k = "set"
  ELSE IF t.k = "DictType" THEN value.k = "dict"
  ELSE IsInstanceOfClass(value, t.model_class)

\* isinstance(value, self.native_type)
IsInstance(value, t) ==
  IF t.k = "BooleanType" THEN value.k = "bool"
  ELSE IF t.k = "IntType" THEN IsNumber(value)
  ELSE IF t.k = "StringType" THEN value.k = "str"
  ELSE IF t.k = "ListType" THEN value.k = "list"
  ELSE IF t.k = "SetType" THEN value.k = "set"
  ELSE IF t.k = "DictType" THEN value.k = "dict"
  ELSE IsInstanceOfClass(value, t.model_class)

ValueType_validate(t, value) ==
  IF ~IsInstance(value, t) THEN Failure("is not an instance of", value) ELSE NoExc

SizedType_validate(t, value) ==
  With(ValueType_validate(t, value), LAMBDA base :
    IF base.type # "none" THEN base
    ELSE IF ~IsNone(t.min_length) /\ PyLen(value) < t.min_length.n
         THEN Failure("is too short", value)
    ELSE IF ~IsNone(t.max_length) /\ PyLen(value) > t.max_length.n
         THEN Failure("is too long", value)
    ELSE NoExc)

ComparableType_validate(t, value) ==
  With(ValueType_validate(t, value), LAMBDA base :
    IF base.type # "none" THEN base
    ELSE IF ~IsNone(t.min_value) /\ value.n < t.min_value.n
         THEN Failure("is too small", value)
    ELSE IF ~IsNone(t.max_value) /\ value.n > t.max_value.n
         THEN Failure("is too small", value)
    ELSE NoExc)

RECURSIVE Type_validate(_, _, _)
RECURSIVE ValidateItems(_, _, _)
RECURSIVE ValidatePairs(_, _, _)
RECURSIVE ValidateFields(_, _, _, _)
RECURSIVE Model_validate(_, _)

\* for item in value: self.item_type.validate(item) -- the first failure
\* leaves the loop and the method.
ValidateItems(h, item_type, xs) ==
  IF xs = <<>> THEN Returns(h)
  ELSE With(Type_validate(h, item_type, Head(xs)), LAMBDA r :
         IF Raised(r) THEN r ELSE ValidateItems(r.h, item_type, Tail(xs)))

IterableType_validate(h, t, value) ==
  With(SizedType_validate(t, value), LAMBDA base :
    IF base.type # "none" THEN Raises(h, base)
    ELSE IF ~IsNone(t.item_type) THEN ValidateItems(h, t.item_type, value.xs)
    ELSE Returns(h))

\* for item_key, item_value in value.items(): the key, then the value.
ValidatePairs(h, t, items) ==
  IF items = <<>> THEN Returns(h)
  ELSE With(IF ~IsNone(t.key_type)
            THEN Type_validate(h, t.key_type, Head(items)[1])
            ELSE Returns(h), LAMBDA rk :
         IF Raised(rk) THEN rk
         ELSE With(IF ~IsNone(t.value_type)
                   THEN Type_validate(rk.h, t.value_type, Head(items)[2])
                   ELSE Returns(rk.h), LAMBDA rv :
                IF Raised(rv) THEN rv ELSE ValidatePairs(rv.h, t, Tail(items))))

DictType_validate(h, t, value) ==
  With(SizedType_validate(t, value), LAMBDA base :
    IF base.type # "none" THEN Raises(h, base)
    ELSE IF ~IsNone(t.key_type) \/ ~IsNone(t.value_type)
         THEN ValidatePairs(h, t, value.items)
    ELSE Returns(h))

\* Field.validate
\* Takes a value that is false (0, '', an empty list) as absent: `not value`.
Field_validate_falsy(h, field, value) ==
  IF IsNone(value) \/ (IsNumber(value) /\ value.n = 0)
     \/ (value.k \in {"str", "list", "set", "dict"} /\ PyLen(value) = 0)
  THEN IF field.required THEN Raises(h, Failure("value is required", value))
       ELSE Returns(h)
  ELSE Type_validate(h, field.type, value)

\* Field.validate
Field_validate(h, field, value) ==
  IF IsNone(value)
  THEN IF field.required THEN Raises(h, Failure("value is required", value))
       ELSE Returns(h)
  ELSE Type_validate(h, field.type, value)

\* The loop of Model.validate over self.fields.items(): a field that fails
\* is recorded and the loop goes on; stops at the first failure instead.
ValidateFieldsFailFast(h, error, self, fs) ==
  IF fs = <<>> THEN Returns(h)
  ELSE With(Field_validate(h, Head(fs)[2], self.attrs[Head(fs)[1]]), LAMBDA r :
         IF IsValidationError(r.raised)
         THEN add_field_error(r.h, error, <<Head(fs)[1]>>, r.raised)
         ELSE IF Raised(r) THEN r
         ELSE ValidateFields(r.h, error, self, Tail(fs)))

ValidateFields(h, error, self, fs) ==
  IF fs = <<>> THEN Returns(h)
  ELSE With(Field_validate(h, Head(fs)[2], self.attrs[Head(fs)[1]]), LAMBDA r :
         IF IsValidationError(r.raised)
         THEN With(add_field_error(r.h, error, <<Head(fs)[1]>>, r.raised), LAMBDA a :
                IF Raised(a) THEN a ELSE ValidateFields(a.h, error, self, Tail(fs)))
         ELSE IF Raised(r) THEN r
         ELSE ValidateFields(r.h, error, self, Tail(fs)))

\* Collects the failures and returns without raising them.
Model_validate_silent(h, self) ==
  With(MVE_init(h), LAMBDA e :
    With(ValidateFields(e.h, e.id, self, fields(self.c)), LAMBDA r :
      IF Raised(r) THEN r ELSE Returns(r.h)))

\* Model.validate
Model_validate(h, self) ==
  With(MVE_init(h), LAMBDA e :
    With(ValidateFields(e.h, e.id, self, fields(self.c)), LAMBDA r :
      IF Raised(r) THEN r
      ELSE IF MVE_bool(r.h, e.id) THEN Raises(r.h, ModelValidationError(e.id))
      ELSE Returns(r.h)))

\* ModelType.validate
ModelType_validate(h, t, value) ==
  With(ValueType_validate(t, value), LAMBDA base :
    IF base.type # "none" THEN Raises(h, base)
    ELSE IF ~IsNone(value) THEN Model_validate(h, value)
    ELSE Returns(h))

\* value_type.validate(value), dispatched on the class of the type.
Type_validate(h, t, value) ==
  IF t.k = "BooleanType" THEN Raises(h, ValueType_validate(t, value))
  ELSE IF t.k = "IntType" THEN Raises(h, ComparableType_validate(t, value))
  ELSE IF t.k = "StringType" THEN Raises(h, SizedType_validate(t, value))
  ELSE IF t.k \in {"ListType", "SetType"} THEN IterableType_validate(h, t, value)
  ELSE IF t.k = "DictType" THEN DictType_validate(h, t, value)
  ELSE ModelType_validate(h, t, value)

(***************************************************************************)
(* model.py: construction with defaults, and the helpers of the serializer *)
(***************************************************************************)
\* ValueType.default_value: self.native_type()
RECURSIVE default_value(_)
RECURSIVE Model_init(_)

\* A default that is callable: a function of no argument, told by what it
\* returns, or a model class.
Producer(v) == [k |-> "callable", returns |-> v]
Callable(v) == v.k \in {"callable", "class"}
Call(v) == IF v.k = "callable" THEN v.returns ELSE Model_init(v.c)

\* Asks the required flag before it looks at the default.
create_default_value_required_first(field) ==
  IF ~field.required THEN PyNone
  ELSE IF field.default.k = "type_default" THEN default_value(field.type)
  ELSE IF Callable(field.default) THEN Call(field.default)
  ELSE field.default

\* Field.create_default_value
create_default_value(field) ==
  IF field.default.k = "type_default"
  THEN IF ~field.required THEN PyNone ELSE default_value(field.type)
  ELSE IF Callable(field.default) THEN Call(field.default)
  ELSE field.default

\* The field descriptor of a class at a name.
FieldOf(c, name) ==
  With(fields(c), LAMBDA fs : fs[CHOOSE i \in 1..Len(fs) : fs[i][1] = name][2])

\* Model.__init__ without keyword arguments
Model_init(c) ==
  PyModel(c, [name \in field_names(c) |-> create_default_value(FieldOf(c, name))])

\* The loop of Model.__init__ over self.fields: the attributes set, and the
\* names of the fields whose create_default_value was called, call by call.
RECURSIVE InitFields(_, _, _, _)
InitFields(fs, kwargs, attrs, calls) ==
  IF fs = <<>> THEN [attrs |-> attrs, calls |-> calls]
  ELSE IF Head(fs)[1] \in DOMAIN kwargs
       THEN InitFields(Tail(fs), kwargs,
                       (Head(fs)[1] :> kwargs[Head(fs)[1]]) @@ attrs, calls)
       ELSE InitFields(Tail(fs), kwargs,
                       (Head(fs)[1] :> create_default_value(Head(fs)[2])) @@ attrs,
                       Append(calls, Head(fs)[1]))

\* Sets every keyword as an attribute, a field or not.
Model_new_any_keyword(c, kwargs) ==
  With(InitFields(fields(c), kwargs, EmptyMap, <<>>), LAMBDA r :
    [value |-> PyModel(c, kwargs @@ r.attrs), calls |-> r.calls])

\* Model.__init__(**kwargs): the instance, and the calls of create_default_value.
Model_new(c, kwargs) ==
  With(InitFields(fields(c), kwargs, EmptyMap, <<>>), LAMBDA r :
    [value |-> PyModel(c, r.attrs), calls |-> r.calls])

\* Builds the instance without the keywords.
PolymorphicModelMeta_call_bare(g, type_name, kwargs) ==
  With(PM_get_model_class_for_type(g, type_name), LAMBDA model_class :
    IF model_class = "None"
    THEN [value |-> PyNone, calls |-> <<>>,
          raised |-> [type |-> "ValueError", msg |-> "Unknown model type name"]]
    ELSE With(Model_new(model_class, EmptyMap), LAMBDA r :
           [value |-> r.value, calls |-> r.calls, raised |-> NoExc]))

\* PolymorphicModelMeta.__call__: the group called with a tag and keywords.
PolymorphicModelMeta_call(g, type_name, kwargs) ==
  With(PM_get_model_class_for_type(g, type_name), LAMBDA model_class :
    IF model_class = "None"
    THEN [value |-> PyNone, calls |-> <<>>,
          raised |-> [type |-> "ValueError", msg |-> "Unknown model type name"]]
    ELSE With(Model_new(model_class, kwargs), LAMBDA r :
           [value |-> r.value, calls |-> r.calls, raised |-> NoExc]))

\* PolymorphicModel.__subclasshook__: True, or NotImplemented.
subclasshook(g, C) ==
  IF ~IsNone(get_model_type_for_class(g, C)) THEN "True" ELSE "NotImplemented"

\* issubclass(C, g) for a group g, whose metaclass is an ABCMeta: what the
\* hook says unless it is NotImplemented; then true for g itself (no class
\* can have g as a base), and for a class registered with g.register, and
\* the subclasses of one.
issubclass_group(C, g, registry) ==
  \/ subclasshook(g, C) = "True"
  \/ IsSubclass(C, g)
  \/ \E entry \in registry : entry[1] = g /\ IsSubclass(C, entry[2])

default_value(t) ==
  IF t.k = "BooleanType" THEN PyBool(FALSE)
  ELSE IF t.k = "IntType" THEN PyInt(0)
  ELSE IF t.k = "StringType" THEN PyStr("")
  ELSE IF t.k = "ListType" THEN PyList(<<>>)
  ELSE IF t.k = "SetType" THEN PySet(<<>>)
  ELSE IF t.k = "DictType" THEN PyDict(<<>>)
  ELSE Model_init(t.model_class)

\* setattr(model, name, value)
SetAttr(model, name, value) == [model EXCEPT !.attrs[name] = value]

\* get_type_specifier_name: getattr(model_type, 'type_specifier_name', None)
get_type_specifier_name(model_type) ==
  IF model_type \in PolymorphicModels THEN PyStr(type_specifier_name(model_type))
  ELSE PyNone

\* get_model_class_for_type: the class beside the exception raised.
get_model_class_for_type(model_type, type_name) ==
  IF model_type \notin PolymorphicModels
  THEN [c |-> model_type, raised |-> NoExc]
  ELSE With(PM_get_model_class_for_type(model_type, type_name), LAMBDA model_class :
         IF model_class = "None"
         THEN [c |-> "None", raised |-> Failure("is not in allowed types", type_name)]
         ELSE [c |-> model_class, raised |-> NoExc])

\* get_type_name_for_model: the tag beside the exception raised.
get_type_name_for_model(model_type, model_class) ==
  With(get_model_type_for_class(model_type, model_class), LAMBDA model_type_name :
    IF IsNone(model_type_name)
    THEN [value |-> PyNone,
          raised |-> TypeError("Could not determine model type name")]
    ELSE [value |-> model_type_name, raised |-> NoExc])

(***************************************************************************)
(* serializer.py: serialization.  An operator returns the value beside the *)
(* exception raised.                                                       *)
(***************************************************************************)
Val(v) == [value |-> v, raised |-> NoExc]
Exc(e) == [value |-> PyNone, raised |-> e]

\* The characters of a str, for the strs of at most one character that stand
\* where an iterable is expected.
Chars(s) == IF s = "" THEN <<>> ELSE <<PyStr(s)>>

\* for x in value
Iter(value) ==
  IF value.k \in {"list", "set"} THEN Val(value.xs)
  ELSE IF value.k = "dict" THEN Val([i \in 1..Len(value.items) |-> value.items[i][1]])
  ELSE IF value.k = "str" THEN Val(Chars(value.s))
  ELSE Exc(TypeError("object is not iterable"))

\* hash(value): the values a set or the keys of a dict may hold; Model defines
\* __eq__ and no __hash__.
Hashable(v) == v.k \in {"none", "int", "bool", "str"}

RECURSIVE Dedupe(_, _)
Dedupe(seen, xs) ==
  IF xs = <<>> THEN seen
  ELSE IF \E i \in 1..Len(seen) : KeyEq(seen[i], Head(xs))
       THEN Dedupe(seen, Tail(xs))
       ELSE Dedupe(Append(seen, Head(xs)), Tail(xs))

\* set(list)
MakeSet(xs) ==
  IF \E i \in 1..Len(xs) : ~Hashable(xs[i]) THEN Exc(TypeError("unhashable type"))
  ELSE Val(PySet(Dedupe(<<>>, xs)))

RECURSIVE serialize_value(_, _)
RECURSIVE _serialize_model(_, _)
RECURSIVE SerializeItems(_, _, _)
RECURSIVE SerializePairs(_, _, _)
RECURSIVE SerializeFields(_, _, _)

\* [self.serialize_value(x, value_type.item_type) for x in value]
SerializeItems(xs, item_type, done) ==
  IF xs = <<>> THEN Val(done)
  ELSE With(serialize_value(Head(xs), item_type), LAMBDA r :
         IF Raised(r) THEN r
         ELSE SerializeItems(Tail(xs), item_type, Append(done, r.value)))

\* {self.serialize_value(k, key_type): self.serialize_value(v, value_type) ...}
SerializePairs(items, t, done) ==
  IF items = <<>> THEN Val(PyDict(done))
  ELSE With(serialize_value(Head(items)[1], t.key_type), LAMBDA rk :
         IF Raised(rk) THEN rk
         ELSE With(serialize_value(Head(items)[2], t.value_type), LAMBDA rv :
                IF Raised(rv) THEN rv
                ELSE IF ~Hashable(rk.value) THEN Exc(TypeError("unhashable type"))
                ELSE SerializePairs(Tail(items), t,
                                    DictSet(done, rk.value, rv.value))))

\* The list comprehension over value.
SerializeIterable(value, item_type) ==
  With(Iter(value), LAMBDA it :
    IF Raised(it) THEN it ELSE SerializeItems(it.value, item_type, <<>>))

\* ModelSerializer.serialize_value
serialize_value(value, value_type) ==
  IF value_type.k = "ModelType"
  THEN _serialize_model(value, value_type.model_class)
  ELSE IF value_type.k = "ListType" /\ ~IsNone(value) THEN
    With(SerializeIterable(value, value_type.item_type), LAMBDA r :
      IF Raised(r) THEN r ELSE Val(PyList(r.value)))
  ELSE IF value_type.k = "SetType" /\ ~IsNone(value) THEN
    With(SerializeIterable(value, value_type.item_type), LAMBDA r :
      IF Raised(r) THEN r ELSE MakeSet(r.value))
  ELSE IF value_type.k = "DictType" /\ ~IsNone(value) THEN
    IF value.k # "dict" THEN Exc(AttributeError("object has no attribute 'items'"))
    ELSE SerializePairs(value.items, value_type, <<>>)
  ELSE Val(value)

\* The loop of _serialize_model over the fields of type(value).
SerializeFields(value, fs, result) ==
  IF fs = <<>> THEN Val(result)
  ELSE With(serialize_value(value.attrs[Head(fs)[1]], Head(fs)[2].type), LAMBDA r :
         IF Raised(r) THEN r
         ELSE SerializeFields(value, Tail(fs),
                              DictSet(result, PyStr(Head(fs)[1]), r.value)))

\* Leaves a key the fields have written as it is.
InjectType_setdefault(result, model_type, model_class) ==
  With(get_type_specifier_name(model_type), LAMBDA tsn :
    IF IsNone(tsn) \/ tsn.s = "" THEN Val(PyDict(result))
    ELSE With(get_type_name_for_model(model_type, model_class), LAMBDA tag :
           IF Raised(tag) THEN tag
           ELSE IF DictHas(result, tsn) THEN Val(PyDict(result))
           ELSE Val(PyDict(DictSet(result, tsn, tag.value)))))

\* The end of _serialize_model: the tag goes under the type-specifier key,
\* when there is such a key and it is not empty.
InjectType(result, model_type, model_class) ==
  With(get_type_specifier_name(model_type), LAMBDA tsn :
    IF IsNone(tsn) \/ tsn.s = "" THEN Val(PyDict(result))
    ELSE With(get_type_name_for_model(model_type, model_class), LAMBDA tag :
           IF Raised(tag) THEN tag
           ELSE Val(PyDict(DictSet(result, tsn, tag.value)))))

\* Leaves the tag out of the mapping.
_serialize_model_untagged(value, model_type) ==
  IF IsNone(value) THEN Val(PyNone)
  ELSE IF value.k # "model" THEN Exc(AttributeError("type object has no attribute 'fields'"))
  ELSE With(SerializeFields(value, fields(value.c), <<>>), LAMBDA r :
         IF Raised(r) THEN r ELSE Val(PyDict(r.value)))

\* DictModelSerializer._serialize_model
_serialize_model(value, model_type) ==
  IF IsNone(value) THEN Val(PyNone)
  ELSE IF value.k # "model" THEN Exc(AttributeError("type object has no attribute 'fields'"))
  ELSE With(SerializeFields(value, fields(value.c), <<>>), LAMBDA r :
         IF Raised(r) THEN r ELSE InjectType(r.value, model_type, value.c))

\* ModelSerializer.serialize_model: the keyword arguments are not passed on.
serialize_model(value, model_type) ==
  IF value.k # "model" THEN Exc(TypeError("Value is not an instance of Model"))
  ELSE _serialize_model(value, IF model_type = "None" THEN value.c ELSE model_type)

\* What the keyword argument `fields` can be beside None: a container of
\* field names, or a callable taking a (name, field) pair, here the callable
\* that accepts the pairs of the names in `accepts`.
Container(names) == [k |-> "container", names |-> names]
Predicate(accepts) == [k |-> "callable", accepts |-> accepts]

\* make_field_filter(fields)(item)
make_field_filter(fields_kw, item) ==
  IF IsNone(fields_kw) THEN TRUE
  ELSE IF fields_kw.k = "container" THEN item[1] \in fields_kw.names
  ELSE item[1] \in fields_kw.accepts

\* iter_model_fields(model_class, fields=fields_kw)
iter_model_fields(model_class, fields_kw) ==
  IF IsNone(fields_kw) THEN fields(model_class)
  ELSE SelectSeq(fields(model_class), LAMBDA item : make_field_filter(fields_kw, item))

\* ModelSerializer.serialize_model(value, model_type, fields=fields_kw): the
\* call of self._serialize_model is made without the keyword arguments.
serialize_model_fields(value, model_type, fields_kw) == serialize_model(value, model_type)

(***************************************************************************)
(* serializer.py: deserialization.  An operator returns the heap (a pass   *)
(* over the fields allocates an aggregate error) and the value beside the  *)
(* exception raised.  The serializer is "dict" or "json".                  *)
(***************************************************************************)
DVal(h, v) == [h |-> h, value |-> v, raised |-> NoExc]
DExc(h, e) == [h |-> h, value |-> PyNone, raised |-> e]
ValueError(msg) == [type |-> "ValueError", msg |-> msg]
\* An exception that leaves the loop over the fields: `model` is the state
\* the setattr calls made so far have left the instance in.
DExcAt(h, e, model) == [h |-> h, value |-> PyNone, raised |-> e, model |-> model]
\* id(model): a model instance as the object a caller holds.
Object(id, model) == [k |-> "model", c |-> model.c, attrs |-> model.attrs, id |-> id]

\* What model_or_model_type is: a class (or polymorphic group), or an instance.
ClassRef(c) == [k |-> "class", c |-> c]

\* json.loads on the texts used: what each parses to; any other str is not
\* valid JSON, and a value that is no str is a TypeError.
JsonDocs ==
  ("10" :> PyInt(10)) @@
  ("null" :> PyNone) @@
  ("{\"a_field\": \"abc\", \"x\": 10}" :>
     PyDict(<< <<PyStr("a_field"), PyStr("abc")>>, <<PyStr("x"), PyInt(10)>> >>)) @@
  ("{\"a_field\": \"abc\", \"x\": -1}" :>
     PyDict(<< <<PyStr("a_field"), PyStr("abc")>>, <<PyStr("x"), PyInt(-1)>> >>)) @@
  ("{\"a_field\": \"abc\", \"x\": 10, \"type\": \"c\"}" :>
     PyDict(<< <<PyStr("a_field"), PyStr("abc")>>, <<PyStr("x"), PyInt(10)>>,
               <<PyStr("type"), PyStr("c")>> >>))

\* The str json.dumps returns: the JSON text of the document doc.
JsonText(doc) == [k |-> "str", json |-> doc]

\* The key of a JSON object for a key of a dict: a str as it is, an int, a
\* bool or None as the text of its JSON literal.
JsonKey(key) ==
  IF key.k = "str" THEN key
  ELSE IF key.k = "int" THEN PyStr(ToString(key.n))
  ELSE IF key.k = "bool" THEN PyStr(IF key.n = 1 THEN "true" ELSE "false")
  ELSE PyStr("null")

\* The JSON document json.dumps writes for a value: a set and a model
\* instance are not JSON serializable, the keys of a dict become strs.
RECURSIVE JsonEncode(_)
RECURSIVE JsonEncodeItems(_, _)
RECURSIVE JsonEncodePairs(_, _)
JsonEncodeItems(xs, done) ==
  IF xs = <<>> THEN Val(PyList(done))
  ELSE With(JsonEncode(Head(xs)), LAMBDA r :
         IF Raised(r) THEN r ELSE JsonEncodeItems(Tail(xs), Append(done, r.value)))

JsonEncodePairs(items, done) ==
  IF items = <<>> THEN Val(PyDict(done))
  ELSE IF ~Hashable(Head(items)[1])
       THEN Exc(TypeError("keys must be str, int, float, bool or None"))
  ELSE With(JsonEncode(Head(items)[2]), LAMBDA r :
         IF Raised(r) THEN r
         ELSE JsonEncodePairs(Tail(items),
                              Append(done, <<JsonKey(Head(items)[1]), r.value>>)))

JsonEncode(value) ==
  IF value.k \in {"none", "int", "bool", "str"} THEN Val(value)
  ELSE IF value.k = "list" THEN JsonEncodeItems(value.xs, <<>>)
  ELSE IF value.k = "dict" THEN JsonEncodePairs(value.items, <<>>)
  ELSE Exc(TypeError("Object is not JSON serializable"))

\* json.dumps(value)
json_dumps(value) ==
  With(JsonEncode(value), LAMBDA r : IF Raised(r) THEN r ELSE Val(JsonText(r.value)))

\* The value json.loads builds for a JSON document: of the members of an
\* object with the same key the last one stays.
RECURSIVE JsonDecode(_)
RECURSIVE JsonDecodePairs(_, _)
JsonDecodePairs(items, done) ==
  IF items = <<>> THEN PyDict(done)
  ELSE JsonDecodePairs(Tail(items),
                       DictSet(done, Head(items)[1], JsonDecode(Head(items)[2])))

JsonDecode(doc) ==
  IF doc.k = "list" THEN PyList([i \in 1..Len(doc.xs) |-> JsonDecode(doc.xs[i])])
  ELSE IF doc.k = "dict" THEN JsonDecodePairs(doc.items, <<>>)
  ELSE doc

json_loads(value) ==
  IF value.k # "str" THEN Exc(TypeError("the JSON object must be str, bytes or bytearray"))
  ELSE IF "json" \in DOMAIN value THEN Val(JsonDecode(value.json))
  ELSE IF value.s \in DOMAIN JsonDocs THEN Val(JsonDocs[value.s])
  ELSE Exc(ValueError("Expecting property name enclosed in double quotes"))

RECURSIVE deserialize_value(_, _, _, _)
RECURSIVE _deserialize_model(_, _, _, _)
RECURSIVE DeserializeItems(_, _, _, _, _)
RECURSIVE DeserializePairs(_, _, _, _, _)
RECURSIVE DeserializeFields(_, _, _, _, _, _)

\* [self.deserialize_value(x, value_type.item_type) for x in value]
DeserializeItems(ser, h, xs, item_type, done) ==
  IF xs = <<>> THEN DVal(h, done)
  ELSE With(deserialize_value(ser, h, Head(xs), item_type), LAMBDA r :
         IF Raised(r) THEN r
         ELSE DeserializeItems(ser, r.h, Tail(xs), item_type, Append(done, r.value)))

\* {self.deserialize_value(k, key_type): self.deserialize_value(v, value_type) ...}
DeserializePairs(ser, h, items, t, done) ==
  IF items = <<>> THEN DVal(h, PyDict(done))
  ELSE With(deserialize_value(ser, h, Head(items)[1], t.key_type), LAMBDA rk :
         IF Raised(rk) THEN rk
         ELSE With(deserialize_value(ser, rk.h, Head(items)[2], t.value_type), LAMBDA rv :
                IF Raised(rv) THEN rv
                ELSE IF ~Hashable(rk.value) THEN DExc(rv.h, TypeError("unhashable type"))
                ELSE DeserializePairs(ser, rv.h, Tail(items), t,
                                      DictSet(done, rk.value, rv.value))))

\* The list comprehension over value.
DeserializeIterable(ser, h, value, item_type) ==
  With(Iter(value), LAMBDA it :
    IF Raised(it) THEN DExc(h, it.raised)
    ELSE DeserializeItems(ser, h, it.value, item_type, <<>>))

\* Passes every value that is not of a model type through unchanged.
deserialize_value_flat(ser, h, value, value_type) ==
  IF value_type.k = "ModelType"
  THEN _deserialize_model(ser, h, value, ClassRef(value_type.model_class))
  ELSE DVal(h, value)

\* ModelSerializer.deserialize_value
deserialize_value(ser, h, value, value_type) ==
  IF value_type.k = "ModelType"
  THEN _deserialize_model(ser, h, value, ClassRef(value_type.model_class))
  ELSE IF value_type.k = "ListType" /\ ~IsNone(value) THEN
    With(DeserializeIterable(ser, h, value, value_type.item_type), LAMBDA r :
      IF Raised(r) THEN r ELSE DVal(r.h, PyList(r.value)))
  ELSE IF value_type.k = "SetType" /\ ~IsNone(value) THEN
    With(DeserializeIterable(ser, h, value, value_type.item_type), LAMBDA r :
      IF Raised(r) THEN r
      ELSE With(MakeSet(r.value), LAMBDA made :
             [h |-> r.h, value |-> made.value, raised |-> made.raised]))
  ELSE IF value_type.k = "DictType" /\ ~IsNone(value) THEN
    IF value.k # "dict" THEN DExc(h, AttributeError("object has no attribute 'items'"))
    ELSE DeserializePairs(ser, h, value.items, value_type, <<>>)
  ELSE DVal(h, value)

\* The loop of _deserialize_model over the fields: value.get(name) is
\* deserialized and set on the model; in the except clause for a
\* ValidationError the call error.add_sub_error(name, field_error) names a
\* method ModelValidationError does not have, so an AttributeError leaves
\* the loop.
DeserializeFields(ser, h, error, value, model, fs) ==
  IF fs = <<>> THEN DVal(h, model)
  ELSE With(deserialize_value(ser, h, DictGet(value.items, PyStr(Head(fs)[1])),
                              Head(fs)[2].type), LAMBDA r :
         IF IsValidationError(r.raised)
         THEN DExcAt(r.h, AttributeError(
                "'ModelValidationError' object has no attribute 'add_sub_error'"), model)
         ELSE IF Raised(r) THEN DExcAt(r.h, r.raised, model)
         ELSE DeserializeFields(ser, r.h, error, value,
                                SetAttr(model, Head(fs)[1], r.value), Tail(fs)))

\* The pass of _deserialize_model over the fields of the model, with its
\* aggregate error, raised at the end if it holds anything.
DeserializeInto(ser, h, value, model) ==
  With(MVE_init(h), LAMBDA e :
    With(DeserializeFields(ser, e.h, e.id, value, model, fields(model.c)), LAMBDA r :
      IF Raised(r) THEN r
      ELSE IF MVE_bool(r.h, e.id) THEN DExc(r.h, ModelValidationError(e.id))
      ELSE r))

\* Builds a new instance of the class of the instance given.
ResolveModel_copy(h, value, model_or_model_type) ==
  IF model_or_model_type.k = "model" THEN DVal(h, Model_init(model_or_model_type.c))
  ELSE With(get_type_specifier_name(model_or_model_type.c), LAMBDA tsn :
         IF ~IsNone(tsn) /\ ~DictHas(value.items, tsn)
         THEN DExc(h, Failure("Polymorphic model requires type specifier", value))
         ELSE With(get_model_class_for_type(model_or_model_type.c,
                     IF IsNone(tsn) THEN PyNone ELSE DictGet(value.items, tsn)),
                   LAMBDA resolved :
                IF Raised(resolved) THEN DExc(h, resolved.raised)
                ELSE DVal(h, Model_init(resolved.c))))

\* The model of _deserialize_model: the instance given, or a new instance of
\* the class given, for a polymorphic group the class of the tag in the value.
ResolveModel(h, value, model_or_model_type) ==
  IF model_or_model_type.k = "model" THEN DVal(h, model_or_model_type)
  ELSE With(get_type_specifier_name(model_or_model_type.c), LAMBDA tsn :
         IF ~IsNone(tsn) /\ ~DictHas(value.items, tsn)
         THEN DExc(h, Failure("Polymorphic model requires type specifier", value))
         ELSE With(get_model_class_for_type(model_or_model_type.c,
                     IF IsNone(tsn) THEN PyNone ELSE DictGet(value.items, tsn)),
                   LAMBDA resolved :
                IF Raised(resolved) THEN DExc(h, resolved.raised)
                ELSE DVal(h, Model_init(resolved.c))))

\* DictModelSerializer._deserialize_model
Dict_deserialize_model(ser, h, value, model_or_model_type) ==
  IF IsNone(value) THEN DVal(h, PyNone)
  ELSE IF value.k # "dict"
       THEN DExc(h, Failure("Model deserialization requires mapping type", value))
  ELSE With(ResolveModel(h, value, model_or_model_type), LAMBDA m :
         IF Raised(m) THEN m ELSE DeserializeInto(ser, h, value, m.value))

\* self._deserialize_model: DictModelSerializer's, for a JsonModelSerializer
\* after json.loads.
_deserialize_model(ser, h, value, model_or_model_type) ==
  IF ser = "json"
  THEN With(json_loads(value), LAMBDA loaded :
         IF loaded.raised.type = "ValueError"
         THEN DExc(h, Failure("Value is not a valid JSON", value))
         ELSE IF Raised(loaded) THEN DExc(h, loaded.raised)
         ELSE Dict_deserialize_model(ser, h, loaded.value, model_or_model_type))
  ELSE Dict_deserialize_model(ser, h, value, model_or_model_type)

\* The except clauses of deserialize_model.
WrapFailure(r) ==
  IF IsModelValidationError(r.raised) THEN r
  ELSE IF IsValidationError(r.raised)
       THEN With(MVE_init(r.h), LAMBDA mve :
              DExc(add_error(mve.h, mve.id, r.raised), ModelValidationError(mve.id)))
  ELSE r

\* Lets a simple ValidationError through as it is.
deserialize_model_unwrapped(ser, h, value, model_or_model_type) ==
  _deserialize_model(ser, h, value, model_or_model_type)

\* ModelSerializer.deserialize_model
deserialize_model(ser, h, value, model_or_model_type) ==
  WrapFailure(_deserialize_model(ser, h, value, model_or_model_type))

\* JsonModelSerializer.serialize_model
Json_serialize_model(value, model_type) ==
  With(serialize_model(value, model_type), LAMBDA r :
    IF Raised(r) THEN r ELSE json_dumps(r.value))

(***************************************************************************)
(* The error tree driven by a caller: any sequence of the operations of    *)
(* ModelValidationError on the nodes of the heap.  ret records the last    *)
(* call: the operation, its arguments, and what it returned or raised.     *)
(* The errors are distinct exception objects, each recorded at most once:  *)
(* a simple error is handed over while it is in no node's errors, an       *)
(* aggregate while it is the root of a tree other than the tree of self    *)
(* and in no node's errors.  A query leaves the heap as it is, so a run    *)
(* ends with it.                                                           *)
(***************************************************************************)
Keys == {<<"a">>}

\* A positional argument given for a path: a str, by its characters, or an int.
PyChars(cs) == [k |-> "str", cs |-> cs]
PathArgs ==
  {<<>>, <<PyChars(<<"a">>)>>, <<PyChars(<<"a", ".", "b">>)>>,
   <<PyChars(<<"a">>), PyChars(<<"b">>)>>, <<PyInt(0)>>, <<PyInt(1)>>}

\* not path
Falsy(path) == IF path.k = "str" THEN path.cs = <<>> ELSE path.n = 0

\* The one parameter `path` of add_path_error, for_field and get_errors as
\* a call binds it: the empty str when no argument is given for it, and
\* Python's TypeError when more than one is.
BindPath(args) ==
  IF Len(args) > 1
  THEN Exc(TypeError("takes 1 positional argument for path but more were given"))
  ELSE Val(IF args = <<>> THEN PyChars(<<>>) ELSE args[1])

\* add_path_error, its path any object: `not path` is asked of it, then
\* path.split, which only a str has.
add_path_error_any(h, self, path, error) ==
  IF Falsy(path) THEN [h |-> add_error(h, self, error), raised |-> NoExc]
  ELSE IF path.k # "str"
       THEN [h |-> h, raised |-> AttributeError("object has no attribute 'split'")]
  ELSE add_path_error(h, self, path.cs, error)

\* for_field, its path any object.
for_field_any(h, path, error) ==
  With(MVE_init(h), LAMBDA a :
    With(add_path_error_any(a.h, a.id, path, error), LAMBDA r :
      [h |-> r.h, id |-> a.id, raised |-> r.raised]))

\* get_errors, its path any object.
get_errors_any(h, self, path) ==
  IF Falsy(path) THEN Val(h[self].errors)
  ELSE IF path.k # "str" THEN Exc(AttributeError("object has no attribute 'split'"))
  ELSE Val(get_errors(h, self, path.cs))

Msgs == <<"e1", "e2">>
SimpleErrors == {ValidationError(Msgs[i]) : i \in 1..Len(Msgs)}
Nodes(h) == 1..Len(h)

Children(h, i) == {h[i].field_errors[k] : k \in DOMAIN h[i].field_errors}

\* The nodes reachable from the nodes of S through at most n child links.
RECURSIVE ReachN(_, _, _)
ReachN(h, S, n) ==
  IF n = 0 THEN S ELSE ReachN(h, S \cup UNION {Children(h, i) : i \in S}, n - 1)
Reach(h, i) == ReachN(h, {i}, Len(h))

IsRoot(h, i) == \A j \in Nodes(h) : i \notin Children(h, j)
Recorded(h) == UNION {{h[i].errors[j] : j \in 1..Len(h[i].errors)} : i \in Nodes(h)}
\* The next simple error the caller raises: the errors are raised in order.
FreshErrors(h) ==
  {ValidationError(Msgs[i]) : i \in {j \in 1..Len(Msgs) :
     /\ ValidationError(Msgs[j]) \notin Recorded(h)
     /\ \A l \in 1..(j - 1) : ValidationError(Msgs[l]) \in Recorded(h)}}
ErrorArgs(h, self) ==
  FreshErrors(h) \cup
  {ModelValidationError(i) :
     i \in {j \in Nodes(h) : /\ IsRoot(h, j)
                             /\ ModelValidationError(j) \notin Recorded(h)
                             /\ self \notin Reach(h, j)}}

Bounded(h) == Len(h) <= MaxNodes

Queries == {"get_errors", "bool"}

InitTree ==
  /\ heap = <<NewNode>>
  /\ ret = [op |-> "init"]

Construct ==
  LET a == MVE_init(heap)
  IN /\ ret.op \notin Queries
     /\ Bounded(a.h)
     /\ heap' = a.h
     /\ ret' = [op |-> "ModelValidationError", id |-> a.id]

AddError ==
  \E self \in Nodes(heap), e \in FreshErrors(heap) :
    /\ ret.op \notin Queries
    /\ heap' = add_error(heap, self, e)
    /\ ret' = [op |-> "add_error", self |-> self, error |-> e]

GetOrCreateField ==
  \E self \in Nodes(heap), name \in Keys :
    LET g == get_or_create_field(heap, self, name)
    IN /\ ret.op \notin Queries
       /\ Bounded(g.h)
       /\ heap' = g.h
       /\ ret' = [op |-> "get_or_create_field", self |-> self, name |-> name,
                  id |-> g.id]

AddFieldError ==
  \E self \in Nodes(heap), name \in Keys : \E e \in ErrorArgs(heap, self) :
    LET r == add_field_error(heap, self, name, e)
    IN /\ ret.op \notin Queries
       /\ Bounded(r.h)
       /\ heap' = r.h
       /\ ret' = [op |-> "add_field_error", self |-> self, name |-> name,
                  error |-> e, raised |-> r.raised]

AddPathError ==
  \E self \in Nodes(heap), args \in PathArgs :
  \E e \in (IF Len(args) = 1 /\ ~Falsy(args[1]) THEN ErrorArgs(heap, self)
            ELSE FreshErrors(heap)) :
    With(BindPath(args), LAMBDA path :
      With(IF Raised(path) THEN [h |-> heap, raised |-> path.raised]
           ELSE add_path_error_any(heap, self, path.value, e), LAMBDA r :
        /\ ret.op \notin Queries
        /\ Bounded(r.h)
        /\ heap' = r.h
        /\ ret' = [op |-> "add_path_error", self |-> self, args |-> args,
                   error |-> e, raised |-> r.raised]))

ForField ==
  \E args \in PathArgs, e \in FreshErrors(heap) :
    With(BindPath(args), LAMBDA path :
      With(IF Raised(path) THEN [h |-> heap, id |-> 0, raised |-> path.raised]
           ELSE for_field_any(heap, path.value, e), LAMBDA r :
        /\ ret.op \notin Queries
        /\ Bounded(r.h)
        /\ heap' = r.h
        /\ ret' = [op |-> "for_field", args |-> args, error |-> e, id |-> r.id,
                   raised |-> r.raised]))

GetErrors ==
  \E self \in Nodes(heap), args \in PathArgs :
    With(BindPath(args), LAMBDA path :
      With(IF Raised(path) THEN path
           ELSE get_errors_any(heap, self, path.value), LAMBDA r :
        /\ ret.op \notin Queries
        /\ heap' = heap
        /\ ret' = [op |-> "get_errors", self |-> self, args |-> args,
                   value |-> r.value, raised |-> r.raised]))

Bool ==
  \E self \in Nodes(heap) :
    /\ ret.op \notin Queries
    /\ heap' = heap
    /\ ret' = [op |-> "bool", self |-> self, value |-> MVE_bool(heap, self)]

NextTree ==
  \/ Construct
  \/ AddError
  \/ GetOrCreateField
  \/ AddFieldError
  \/ AddPathError
  \/ ForField
  \/ GetErrors
  \/ Bool

SpecTree == InitTree /\ [][NextTree]_vars

(***************************************************************************)
(* The models, the types and the serializers driven by a caller: one call  *)
(* on a value of the caller, then possibly a second call on the result     *)
(* (the mapping a serialization returned is deserialized, the instance a   *)
(* deserialization returned is validated).  ret holds the last call, its   *)
(* arguments and its outcome; heap holds the aggregate errors made.        *)
(***************************************************************************)
MaxListLen == 2

RECURSIVE SeqsOfLen(_, _)
SeqsOfLen(S, n) ==
  IF n = 0 THEN {<<>>} ELSE {Append(q, x) : q \in SeqsOfLen(S, n - 1), x \in S}

SeqsUpTo(S, n) == UNION {SeqsOfLen(S, l) : l \in 0..n}

\* The element sequences of the sets, and the pair sequences of the dicts.
SetSeqs(S, n) ==
  {q \in SeqsUpTo(S, n) : \A i, j \in 1..Len(q) : i # j => ~KeyEq(q[i], q[j])}
DictSeqs(K, V, n) ==
  {q \in SeqsUpTo(K \X V, n) : \A i, j \in 1..Len(q) : i # j => ~KeyEq(q[i][1], q[j][1])}

ModelAs ==
  {PyModel("TestModelA", [a_field |-> a, x |-> x]) :
     a \in {PyStr("abc"), PyNone}, x \in {PyInt(10), PyInt(-1)}}
SubModelAs ==
  {PyModel("TestSubModelA", [a_field |-> PyStr("abc"), x |-> PyInt(10), z |-> z]) :
     z \in {PyNone, PyInt(1)}}
ModelBs ==
  {PyModel("TestModelB", [a_field |-> PyInt(20), y |-> y]) : y \in {PyInt(30), PyNone}}
TaggedModels ==
  {PyModel("TestTaggedModel", [type |-> t]) : t \in {PyStr("t"), PyStr("zz")}}

ValidA == PyModel("TestModelA", [a_field |-> PyStr("abc"), x |-> PyInt(10)])
InvalidA == PyModel("TestModelA", [a_field |-> PyStr("abc"), x |-> PyInt(-1)])
SubA == PyModel("TestSubModelA", [a_field |-> PyStr("abc"), x |-> PyInt(10), z |-> PyInt(1)])
SubSubA ==
  PyModel("TestSubSubModelA", [a_field |-> PyStr("abc"), x |-> PyInt(10), z |-> PyInt(1)])

ComposedModels ==
  {PyModel("TestComposedModel", [name |-> PyStr("test"), submodel |-> m]) :
     m \in ModelAs \cup SubModelAs \cup {PyNone}}
ComposedModel3s ==
  {PyModel("TestComposedModel3", [submodels |-> v]) :
     v \in {PyList(q) : q \in SeqsUpTo({ValidA, InvalidA, SubA}, MaxListLen)} \cup {PyNone}}
IntListModels ==
  {PyModel("TestIntListModel", [numbers |-> v]) :
     v \in {PyList(q) : q \in SeqsUpTo({PyInt(0), PyInt(-1)}, MaxListLen)}
           \cup {PySet(<<PyInt(0)>>)}}
ComposedModel4s ==
  {PyModel("TestComposedModel4", [submodels |-> PySet(q)]) :
     q \in SetSeqs({PyStr(""), PyStr("a")}, MaxListLen)}
CountsModels ==
  {PyModel("TestCountsModel", [counts |-> PyDict(q)]) :
     q \in DictSeqs({PyStr(""), PyStr("k")}, {PyInt(0), PyInt(-1)}, MaxListLen)}
ComposedModel5s ==
  {PyModel("TestComposedModel5", [submodels |-> PyDict(q)]) :
     q \in DictSeqs({PyStr("a"), PyStr("b")}, {ValidA, SubA}, MaxListLen)}
OuterModels ==
  {PyModel("TestOuterModel", [inner |-> m]) :
     m \in {PyModel("TestComposedModel", [name |-> PyStr("test"), submodel |-> n]) :
              n \in {ValidA, SubA, PyNone}} \cup {PyNone}}

Instances ==
  ModelAs \cup SubModelAs \cup ModelBs \cup TaggedModels \cup ComposedModels
  \cup ComposedModel3s \cup IntListModels \cup ComposedModel4s \cup CountsModels
  \cup ComposedModel5s \cup OuterModels \cup {SubSubA}

\* model_type of serialize_model: not given, or a polymorphic group.
ModelTypes == {"None"} \cup PolymorphicModels

\* What a caller hands to deserialize_model beside what serialize_model made.
Mapping(pairs) == PyDict([i \in 1..Len(pairs) |-> <<PyStr(pairs[i][1]), pairs[i][2]>>])
DictInputs ==
  {PyInt(10), PyNone,
   Mapping(<< <<"a_field", PyStr("abc")>>, <<"x", PyInt(10)>> >>),
   Mapping(<< <<"a_field", PyStr("abc")>>, <<"x", PyInt(-1)>> >>),
   Mapping(<< <<"a_field", PyStr("abc")>> >>),
   Mapping(<< <<"type", PyStr("a")>>, <<"a_field", PyStr("abc")>>, <<"x", PyInt(-1)>> >>),
   Mapping(<< <<"type", PyStr("c")>>, <<"a_field", PyStr("abc")>>, <<"x", PyInt(10)>> >>),
   Mapping(<< <<"name", PyStr("test")>>, <<"submodel", PyInt(5)>> >>),
   Mapping(<< <<"submodel", PyInt(5)>>, <<"name", PyInt(-1)>> >>),
   Mapping(<< <<"name", PyInt(-1)>>,
              <<"submodel", Mapping(<< <<"a_field", PyStr("abc")>>,
                                       <<"x", PyInt(10)>> >>)>> >>),
   Mapping(<< <<"submodels", PyList(<<PyInt(5)>>)>> >>),
   Mapping(<< <<"inner", Mapping(<< <<"name", PyStr("test")>>,
                                    <<"submodel", PyList(<<>>)>> >>)>> >>)}
JsonInputs == {PyStr(t) : t \in DOMAIN JsonDocs} \cup {PyStr("{invalid json"), PyInt(10)}
Inputs(ser) == IF ser = "json" THEN JsonInputs ELSE DictInputs
Targets ==
  {ClassRef(c) : c \in {"TestModelA", "TestModelAB", "TestComposedModel",
                        "TestComposedModel3", "TestOuterModel"}} \cup {ValidA}

\* The values of the keyword argument `fields`.
Filters ==
  {PyNone, Container({}), Container({"x"}), Container({"x", "a_field"}),
   Container({"z", "nothing"}), Predicate({"a_field"}), Predicate({"x", "z"})}

\* The instances a caller hands to deserialize_model to be filled in place.
Existing ==
  {Object(1, ValidA),
   Object(1, PyModel("TestComposedModel", [name |-> PyStr("old"), submodel |-> ValidA]))}

\* The (type, value) pairs of type.validate: the fields of the instances, and
\* values of every kind for IntType.
IntTypes == {IntType(PyNone, PyNone), IntType(PyInt(1), PyNone), IntType(PyNone, PyInt(0))}

IntArgs ==
  {PyInt(0), PyInt(1), PyInt(-123), PyBool(TRUE), PyBool(FALSE), PyFloat(10), PyStr("10"),
   PyNone}

TypeArgs ==
  UNION {{<<fields(x.c)[i][2].type, x.attrs[fields(x.c)[i][1]]>> :
            i \in 1..Len(fields(x.c))} : x \in Instances}
  \cup (IntTypes \X IntArgs)

Init ==
  /\ heap = <<>>
  /\ ret = [op |-> "init"]

SerializeModel ==
  /\ ret.op = "init"
  /\ \E value \in Instances \cup {PyInt(10)}, model_type \in ModelTypes :
       LET r == serialize_model(value, model_type)
       IN ret' = [op |-> "serialize_model", value |-> value, model_type |-> model_type,
                  result |-> r.value, raised |-> r.raised]
  /\ UNCHANGED heap

\* The mapping serialize_model returned goes to deserialize_model of the
\* DictModelSerializer, with the class of the instance, or with the group the
\* mapping was made for.
DeserializeSerialized ==
  /\ ret.op = "serialize_model"
  /\ ~Raised(ret)
  /\ LET target == ClassRef(IF ret.model_type = "None" THEN ret.value.c
                            ELSE ret.model_type)
         r == deserialize_model("dict", heap, ret.result, target)
     IN /\ ret' = [op |-> "deserialize_model", ser |-> "dict", value |-> ret.result,
                   target |-> target, source |-> ret.value,
                   result |-> r.value, raised |-> r.raised]
        /\ heap' = r.h

DeserializeModel ==
  /\ ret.op = "init"
  /\ \E ser \in {"dict", "json"} :
       \E value \in Inputs(ser), target \in Targets :
         LET r == deserialize_model(ser, heap, value, target)
         IN /\ ret' = [op |-> "deserialize_model", ser |-> ser, value |-> value,
                       target |-> target, source |-> PyNone,
                       result |-> r.value, raised |-> r.raised]
            /\ heap' = r.h

\* serializer.deserialize_model(value, instance): `after` is the state of the
\* instance once the call has returned or raised.
DeserializeIntoInstance ==
  /\ ret.op = "init"
  /\ \E ser \in {"dict", "json"} :
       \E value \in Inputs(ser), target \in Existing :
         LET r == deserialize_model(ser, heap, value, target)
         IN /\ ret' = [op |-> "deserialize_into", ser |-> ser, value |-> value,
                       target |-> target, result |-> r.value, raised |-> r.raised,
                       after |-> IF ~Raised(r) /\ r.value.k = "model"
                                    /\ "id" \in DOMAIN r.value
                                 THEN r.value
                                 ELSE IF "model" \in DOMAIN r THEN r.model
                                 ELSE target]
            /\ heap' = r.h

\* serializer.serialize_model(value, fields=fields_kw)
SerializeModelFiltered ==
  /\ ret.op = "init"
  /\ \E value \in ModelAs \cup SubModelAs, fields_kw \in Filters :
       LET r == serialize_model_fields(value, "None", fields_kw)
       IN ret' = [op |-> "serialize_model_fields", value |-> value, fields |-> fields_kw,
                  result |-> r.value, raised |-> r.raised]
  /\ UNCHANGED heap

\* JsonModelSerializer().serialize_model(value)
JsonSerializeModel ==
  /\ ret.op = "init"
  /\ \E value \in Instances :
       LET r == Json_serialize_model(value, "None")
       IN ret' = [op |-> "json_serialize_model", value |-> value,
                  result |-> r.value, raised |-> r.raised]
  /\ UNCHANGED heap

\* The text goes to deserialize_model of the JsonModelSerializer, with the
\* class of the instance.
JsonDeserializeSerialized ==
  /\ ret.op = "json_serialize_model"
  /\ ~Raised(ret)
  /\ LET r == deserialize_model("json", heap, ret.result, ClassRef(ret.value.c))
     IN /\ ret' = [op |-> "json_deserialize_model", value |-> ret.result,
                   source |-> ret.value, result |-> r.value, raised |-> r.raised]
        /\ heap' = r.h

Validate ==
  /\ ret.op = "init"
  /\ \E self \in Instances :
       LET r == Model_validate(heap, self)
       IN /\ ret' = [op |-> "validate", self |-> self, input |-> PyNone,
                     raised |-> r.raised]
          /\ heap' = r.h

\* The instance deserialize_model returned is validated.
ValidateDeserialized ==
  /\ ret.op = "deserialize_model"
  /\ ~Raised(ret)
  /\ ret.result.k = "model"
  /\ LET r == Model_validate(heap, ret.result)
     IN /\ ret' = [op |-> "validate", self |-> ret.result, input |-> ret.value,
                   raised |-> r.raised]
        /\ heap' = r.h

TypeValidate ==
  /\ ret.op = "init"
  /\ \E arg \in TypeArgs :
       LET r == Type_validate(heap, arg[1], arg[2])
       IN /\ ret' = [op |-> "type_validate", type |-> arg[1], value |-> arg[2],
                     raised |-> r.raised]
          /\ heap' = r.h

Next ==
  \/ SerializeModel
  \/ DeserializeSerialized
  \/ DeserializeModel
  \/ Validate
  \/ ValidateDeserialized
  \/ TypeValidate
  \/ DeserializeIntoInstance
  \/ SerializeModelFiltered
  \/ JsonSerializeModel
  \/ JsonDeserializeSerialized

Spec == Init /\ [][Next]_vars

(***************************************************************************)
(* model.py driven by a caller: one call of an operation of Field, of      *)
(* ModelMeta, of Model or of a polymorphic group, on arguments from the    *)
(* sets below.                                                             *)
(***************************************************************************)
MaxChain == 3

FieldNames == {"a", "b"}

\* The bodies a class of a chain can have: the names of FieldNames it
\* declares, in the order it declares them.
Bodies == {<<>>, <<"a">>, <<"b">>, <<"a", "b">>, <<"b", "a">>}

\* The descriptor a class declares is its own: the one of the class at
\* `level` of the chain is told by its type.
DeclaredAt(level, body) ==
  [j \in 1..Len(body) |->
     <<body[j], Field(IntType(PyInt(level), PyNone), TRUE, type_default)>>]

\* The chains of classes, each class the base of the next: the
\* declared_fields of the classes, the most basic class first.
Chains ==
  UNION {{[i \in 1..n |-> DeclaredAt(i, bs[i])] : bs \in [1..n -> Bodies]} :
           n \in 1..MaxChain}

\* class ...(Model) for each class of a chain: the fields of the last class.
ModelMetaNew ==
  /\ ret.op = "init"
  /\ \E chain \in Chains :
       ret' = [op |-> "ModelMeta", chain |-> chain,
               fields |-> MergeDeclared(<<>>, chain)]
  /\ UNCHANGED heap

\* The fields a caller declares: a type, the required flag, and a default
\* (none given, a literal, None, a function of no argument, a model class).
FieldTypes ==
  {BooleanType, IntType(PyInt(0), PyNone), StringType(PyNone, PyNone),
   ListType(PyNone, PyNone, PyNone), ModelType("TestModelA")}
Defaults ==
  {type_default, PyInt(10), PyStr("abc"), PyNone, Producer(PyInt(10)),
   [k |-> "class", c |-> "TestModelB"]}
FieldArgs ==
  {Field(t, required, default) :
     t \in FieldTypes, required \in BOOLEAN, default \in Defaults}

CreateDefaultValue ==
  /\ ret.op = "init"
  /\ \E field \in FieldArgs :
       ret' = [op |-> "create_default_value", field |-> field,
               value |-> create_default_value(field)]
  /\ UNCHANGED heap

\* The values a caller hands to Field.validate.
FieldValues ==
  {PyNone, PyInt(0), PyInt(5), PyInt(-1), PyBool(TRUE), PyStr(""), PyStr("abc"),
   PyList(<<>>), PyList(<<PyInt(1)>>),
   PyModel("TestModelA", [a_field |-> PyStr("abc"), x |-> PyInt(10)]),
   PyModel("TestModelA", [a_field |-> PyNone, x |-> PyInt(-1)])}

FieldValidate ==
  /\ ret.op = "init"
  /\ \E t \in FieldTypes, required \in BOOLEAN, value \in FieldValues :
       With(Field_validate(heap, Field(t, required, type_default), value), LAMBDA r :
         /\ ret' = [op |-> "field_validate",
                    field |-> Field(t, required, type_default), value |-> value,
                    raised |-> r.raised]
         /\ heap' = r.h)

\* The classes of tests/test_model and the keywords a caller gives them:
\* any of a, b and zz, which is no field.
TestModels == {"TestModel", "TestSubModel"}
KeywordValues ==
  [a |-> {PyStr("123"), PyStr("134")}, b |-> {PyStr("def"), PyStr("deg")},
   zz |-> {PyInt(1)}]
Keywords ==
  UNION {[names -> {PyStr("123"), PyStr("134"), PyStr("def"), PyStr("deg"), PyInt(1)}] :
           names \in SUBSET {"a", "b", "zz"}}
KwArgs == {kw \in Keywords : \A name \in DOMAIN kw : kw[name] \in KeywordValues[name]}

ModelNew ==
  /\ ret.op = "init"
  /\ \E c \in TestModels, kwargs \in KwArgs :
       With(Model_new(c, kwargs), LAMBDA r :
         ret' = [op |-> "Model", c |-> c, kwargs |-> kwargs, value |-> r.value,
                 calls |-> r.calls])
  /\ UNCHANGED heap

\* The instances a caller compares: those of the classes of TestModels made
\* with keywords for fields.
Compared ==
  {Model_new(c, kwargs).value :
     c \in TestModels, kwargs \in {kw \in KwArgs : "zz" \notin DOMAIN kw}}

\* a == b and a != b
Compare ==
  /\ ret.op = "init"
  /\ \E a \in Compared, b \in Compared :
       ret' = [op |-> "compare", a |-> a, b |-> b, eq |-> PyEq(a, b),
               ne |-> PyNe(a, b)]
  /\ UNCHANGED heap

\* The tags and keywords a caller gives to a group called as a factory.
Tags == {PyStr("a"), PyStr("b"), PyStr("t"), PyStr("x"), PyNone}
FactoryKwArgs ==
  {EmptyMap, [a_field |-> PyStr("abc")], [a_field |-> PyStr("abc"), x |-> PyInt(5)],
   [y |-> PyInt(1)], [type |-> PyStr("zz"), zz |-> PyInt(1)]}

Factory ==
  /\ ret.op = "init"
  /\ \E g \in PolymorphicModels, type_name \in Tags, kwargs \in FactoryKwArgs :
       With(PolymorphicModelMeta_call(g, type_name, kwargs), LAMBDA r :
         ret' = [op |-> "factory", g |-> g, type_name |-> type_name,
                 kwargs |-> kwargs, value |-> r.value, calls |-> r.calls,
                 raised |-> r.raised])
  /\ UNCHANGED heap

\* Every class: those of ModelMeta, the groups, their base and object.
Classes == ModelClasses \cup PolymorphicModels \cup {"PolymorphicModel", "object"}

\* g.register(C): C, which is no group, is from now on a virtual subclass of g.
Register ==
  /\ ret.op = "init"
  /\ \E g \in PolymorphicModels, C \in {"TestModelB", "TestModel"} :
       ret' = [op |-> "register", g |-> g, C |-> C]
  /\ UNCHANGED heap

\* The classes registered with a group so far.
Registry == IF ret.op = "register" THEN {<<ret.g, ret.C>>} ELSE {}

\* issubclass(C, g)
IsSubclassOfGroup ==
  /\ ret.op \in {"init", "register"}
  /\ \E g \in PolymorphicModels, C \in Classes :
       ret' = [op |-> "issubclass", C |-> C, g |-> g, registry |-> Registry,
               value |-> issubclass_group(C, g, Registry)]
  /\ UNCHANGED heap

\* G.get_model_type_for_class(C), and G.get_model_class_for_type of the tag.
GetModelTypeForClass ==
  /\ ret.op = "init"
  /\ \E g \in PolymorphicModels, C \in Classes :
       With(get_model_type_for_class(g, C), LAMBDA tag :
         ret' = [op |-> "get_model_type_for_class", g |-> g, C |-> C, value |-> tag,
                 back |-> PM_get_model_class_for_type(g, tag)])
  /\ UNCHANGED heap

NextModel ==
  \/ ModelMetaNew
  \/ CreateDefaultValue
  \/ FieldValidate
  \/ ModelNew
  \/ Compare
  \/ Factory
  \/ Register
  \/ IsSubclassOfGroup
  \/ GetModelTypeForClass

SpecModel == Init /\ [][NextModel]_vars

(***************************************************************************)
(* types.py: a ModelType made with the name of a class, and its uses by a  *)
(* caller.  ret.self is the ModelType object, ret.imports the number of    *)
(* calls of import_object since it was made, ret.uses the number of uses,  *)
(* ret.yielded what self.model_class gave to the last use.  import_object  *)
(* looks the name up in the modules of the host at the time of the call:   *)
(* the name may not be bound yet, or be bound to one class or another.     *)
(***************************************************************************)
MaxUses == 3

\* ModelType(model_class): the object, holding what it was given.
ModelType_init(model_class) == [k |-> "ModelType", _model_class |-> model_class]

\* What import_object(name) can do at the time of a call.
Found ==
  {Exc(AttributeError("module has no attribute")),
   Val(ClassRef("TestModelA")), Val(ClassRef("TestModelB"))}

\* Calls import_object whenever the type was made with a name, and keeps the
\* name.
ModelType_model_class_unmemoized(self, found) ==
  IF self._model_class.k = "str"
  THEN [self |-> self, value |-> found.value, raised |-> found.raised, imported |-> 1]
  ELSE [self |-> self, value |-> self._model_class, raised |-> NoExc, imported |-> 0]

\* ModelType.model_class: the object after the call, the class returned
\* beside the exception raised, and the number of calls of import_object.
ModelType_model_class(self, found) ==
  IF self._model_class.k = "str"
  THEN IF Raised(found)
       THEN [self |-> self, value |-> PyNone, raised |-> found.raised, imported |-> 1]
       ELSE [self |-> [self EXCEPT !._model_class = found.value],
             value |-> found.value, raised |-> NoExc, imported |-> 1]
  ELSE [self |-> self, value |-> self._model_class, raised |-> NoExc, imported |-> 0]

\* ModelType.native_type
ModelType_native_type(self, found) == ModelType_model_class(self, found)

\* The record of a use: m is what self.model_class did in it.
Used(op, m, raised, value) ==
  [op |-> op, self |-> m.self, uses |-> ret.uses + 1, imports |-> ret.imports + m.imported,
   yielded |-> m.value, raised |-> raised, value |-> value]

RefValues == {ValidA, InvalidA, PyModel("TestModelB", [a_field |-> PyInt(20), y |-> PyNone])}
RefMappings ==
  {Mapping(<< <<"a_field", PyStr("abc")>>, <<"x", PyInt(10)>> >>), PyInt(10)}

\* ModelType('tests.TestModelA'), or ModelType(TestModelA)
NewModelType ==
  /\ ret.op = "init"
  /\ \E model_class \in {PyStr("tests.TestModelA"), ClassRef("TestModelA")} :
       ret' = [op |-> "ModelType", self |-> ModelType_init(model_class), uses |-> 0,
               imports |-> 0, yielded |-> PyNone, raised |-> NoExc, value |-> PyNone]
  /\ UNCHANGED heap

\* model_type.model_class
GetModelClass ==
  /\ ret.op # "init" /\ ret.uses < MaxUses
  /\ \E found \in Found :
       With(ModelType_model_class(ret.self, found), LAMBDA m :
         ret' = Used("model_class", m, m.raised, m.value))
  /\ UNCHANGED heap

\* model_type.native_type
GetNativeType ==
  /\ ret.op # "init" /\ ret.uses < MaxUses
  /\ \E found \in Found :
       With(ModelType_native_type(ret.self, found), LAMBDA m :
         ret' = Used("native_type", m, m.raised, m.value))
  /\ UNCHANGED heap

\* model_type.validate(value)
RefValidate ==
  /\ ret.op # "init" /\ ret.uses < MaxUses
  /\ \E found \in Found, value \in RefValues :
       With(ModelType_native_type(ret.self, found), LAMBDA m :
         IF Raised(m)
         THEN ret' = Used("validate", m, m.raised, PyNone) /\ UNCHANGED heap
         ELSE With(Type_validate(heap, ModelType(m.value.c), value), LAMBDA r :
                ret' = Used("validate", m, r.raised, PyNone) /\ heap' = r.h))

\* serializer.serialize_value(value, model_type)
RefSerialize ==
  /\ ret.op # "init" /\ ret.uses < MaxUses
  /\ \E found \in Found, value \in RefValues :
       With(ModelType_native_type(ret.self, found), LAMBDA m :
         IF Raised(m)
         THEN ret' = Used("serialize_value", m, m.raised, PyNone)
         ELSE With(serialize_value(value, ModelType(m.value.c)), LAMBDA r :
                ret' = Used("serialize_value", m, r.raised, r.value)))
  /\ UNCHANGED heap

\* serializer.deserialize_value(value, model_type)
RefDeserialize ==
  /\ ret.op # "init" /\ ret.uses < MaxUses
  /\ \E found \in Found, value \in RefMappings :
       With(ModelType_native_type(ret.self, found), LAMBDA m :
         IF Raised(m)
         THEN ret' = Used("deserialize_value", m, m.raised, PyNone) /\ UNCHANGED heap
         ELSE With(deserialize_value("dict", heap, value, ModelType(m.value.c)), LAMBDA r :
                ret' = Used("deserialize_value", m, r.raised, r.value) /\ heap' = r.h))

NextRef ==
  \/ NewModelType
  \/ GetModelClass
  \/ GetNativeType
  \/ RefValidate
  \/ RefSerialize
  \/ RefDeserialize

SpecRef == Init /\ [][NextRef]_vars

(***************************************************************************)
(* Claims about the serializers.                                           *)
(***************************************************************************)
\* A round trip: serialize_model(x) went to deserialize_model with type(x).
RoundTrip ==
  /\ ret.op = "deserialize_model"
  /\ ret.source.k = "model"
  /\ ret.target = ClassRef(ret.source.c)

\* value is None or of the native type of its type, and every model below it
\* is of exactly the class its type names.
RECURSIVE Conforms(_, _)
Conforms(value, t) ==
  IF IsNone(value) \/ IsNone(t) THEN TRUE
  ELSE IF t.k \in {"ListType", "SetType"} THEN
    /\ IsInstance(value, t)
    /\ \A i \in 1..Len(value.xs) : Conforms(value.xs[i], t.item_type)
  ELSE IF t.k = "DictType" THEN
    /\ IsInstance(value, t)
    /\ \A i \in 1..Len(value.items) :
         /\ Conforms(value.items[i][1], t.key_type)
         /\ Conforms(value.items[i][2], t.value_type)
  ELSE IF t.k = "ModelType" THEN
    /\ value.k = "model"
    /\ value.c = t.model_class
    /\ \A i \in 1..Len(fields(value.c)) :
         Conforms(value.attrs[fields(value.c)[i][1]], fields(value.c)[i][2].type)
  ELSE IsInstance(value, t)

\* C1 as stated: for every model instance x with scalar, List, Set, Dict or
\* nested-model fields, deserialize_model(serialize_model(x), type(x)) of the
\* DictModelSerializer returns an instance equal to x.
C1_RoundTripEqual ==
  RoundTrip => (~Raised(ret) /\ PyEq(ret.result, ret.source))

\* C1 amended: the round trip returns an instance equal to x when every field
\* value of x is None or of the native type of its field type and every nested
\* model, at any depth, is of exactly the class its type names.
C1_RoundTripEqualExactClasses ==
  (RoundTrip /\ Conforms(ret.source, ModelType(ret.source.c)))
    => (~Raised(ret) /\ PyEq(ret.result, ret.source))

\* C1 witness: a model two levels deep, of exact classes, came back equal.
C1_Witness ==
  /\ RoundTrip
  /\ ret.source.c = "TestOuterModel"
  /\ Conforms(ret.source, ModelType(ret.source.c))
  /\ ~IsNone(ret.source.attrs["inner"])
  /\ ~IsNone(ret.source.attrs["inner"].attrs["submodel"])
  /\ ~Raised(ret)
  /\ PyEq(ret.result, ret.source)

\* cls is one of the classes of the group g.
IsMember(cls, g) ==
  \E i \in 1..Len(types_to_model_classes(g)) : types_to_model_classes(g)[i][2] = cls

\* The mapping holds the tag of the class of x under the type-specifier key of
\* g, and every declared field of x with its serialized value.
HoldsTagAndFields(mapping, x, g) ==
  /\ mapping.k = "dict"
  /\ DictHas(mapping.items, PyStr(type_specifier_name(g)))
  /\ DictGet(mapping.items, PyStr(type_specifier_name(g)))
       = get_model_type_for_class(g, x.c)
  /\ \A i \in 1..Len(fields(x.c)) :
       LET name == fields(x.c)[i][1]
       IN /\ DictHas(mapping.items, PyStr(name))
          /\ DictGet(mapping.items, PyStr(name))
               = serialize_value(x.attrs[name], fields(x.c)[i][2].type).value

\* serialize_model(x, model_type=G) returned for a member x of G, or its
\* result went to deserialize_model with target G.
SerializedViaGroup ==
  /\ ret.op = "serialize_model"
  /\ ret.model_type \in PolymorphicModels
  /\ ret.value.k = "model"
  /\ IsMember(ret.value.c, ret.model_type)
DeserializedViaGroup ==
  /\ ret.op = "deserialize_model"
  /\ ret.source.k = "model"
  /\ ret.target.k = "class"
  /\ ret.target.c \in PolymorphicModels
  /\ IsMember(ret.source.c, ret.target.c)

\* C2 as stated: for a polymorphic group G and every instance x of a member
\* class, serialize_model(x, model_type=G) yields a mapping with the tag of the
\* class of x under the type-specifier key plus the declared fields of x, and
\* deserialize_model of it with target G returns an instance equal to x.
C2_PolymorphicRoundTrip ==
  /\ SerializedViaGroup =>
       (~Raised(ret) /\ HoldsTagAndFields(ret.result, ret.value, ret.model_type))
  /\ DeserializedViaGroup => (~Raised(ret) /\ PyEq(ret.result, ret.source))

\* The type-specifier key of g is not empty, the class of x has no field of
\* that name, and the values of x are as the amended C1 wants them.
NoTagClash(x, g) ==
  /\ type_specifier_name(g) # ""
  /\ type_specifier_name(g) \notin field_names(x.c)
  /\ Conforms(x, ModelType(x.c))

\* C2 amended: the same, for a group whose type-specifier key is a non-empty
\* string, and an instance x of a member class that declares no field named as
\* that key and whose field values are None or of the native type of their
\* field type, nested models being of exactly the class their type names.
C2_PolymorphicRoundTripNoClash ==
  /\ (SerializedViaGroup /\ NoTagClash(ret.value, ret.model_type)) =>
       (~Raised(ret) /\ HoldsTagAndFields(ret.result, ret.value, ret.model_type))
  /\ (DeserializedViaGroup /\ NoTagClash(ret.source, ret.target.c)) =>
       (~Raised(ret) /\ PyEq(ret.result, ret.source))

\* C2 witness: a TestModelB serialized via TestModelAB came back equal, the
\* mapping having held "type": "b".
C2_Witness ==
  /\ DeserializedViaGroup
  /\ ret.source.c = "TestModelB"
  /\ ret.target.c = "TestModelAB"
  /\ HoldsTagAndFields(ret.value, ret.source, ret.target.c)
  /\ DictGet(ret.value.items, PyStr("type")) = PyStr("b")
  /\ ~Raised(ret)
  /\ PyEq(ret.result, ret.source)

IsScalarType(t) == t.k \in {"BooleanType", "IntType", "StringType"}

\* The fields of class c whose value in the mapping violates the field: the
\* value, deserialized by itself, does not pass the field's validation.
ViolatingFields(c, mapping) ==
  {name \in field_names(c) :
     LET d == deserialize_value("dict", <<>>, DictGet(mapping.items, PyStr(name)),
                                FieldOf(c, name).type)
     IN Raised(d) \/ Raised(Field_validate(d.h, FieldOf(c, name), d.value))}

\* A mapping for class c in which exactly one field violates, a scalar one.
OneScalarViolation(c, mapping) ==
  /\ c \in ModelClasses
  /\ mapping.k = "dict"
  /\ Cardinality(ViolatingFields(c, mapping)) = 1
  /\ \A name \in ViolatingFields(c, mapping) : IsScalarType(FieldOf(c, name).type)

\* The exception is an aggregate error whose get_errors is non-empty at exactly
\* the names in failing, among the fields of class c.
AggregateFor(h, exc, c, failing) ==
  /\ IsModelValidationError(exc)
  /\ \A name \in field_names(c) :
       (get_errors(h, exc.id, <<name>>) # <<>>) <=> (name \in failing)

\* C3 as stated: deserialize_model of a mapping in which one field's value
\* violates the field's type constraints (-1 for Int(min=0)) while the others
\* are valid raises an aggregate error whose get_errors is non-empty for the
\* violating field and empty for every valid field.
C3_DeserializeRaisesForViolation ==
  (/\ ret.op = "deserialize_model"
   /\ ret.ser = "dict"
   /\ OneScalarViolation(ret.target.c, ret.value))
    => AggregateFor(heap, ret.raised, ret.target.c,
                    ViolatingFields(ret.target.c, ret.value))

\* C3 amended: DictModelSerializer.deserialize_model of such a mapping, the
\* violating field being of a scalar type, does not raise: it returns an
\* instance that holds the violating value; Model.validate on that instance
\* then raises an aggregate error whose get_errors is non-empty for the
\* violating field and empty for every valid field.
C3_ValidateAfterDeserializeRaises ==
  /\ (/\ ret.op = "deserialize_model"
      /\ ret.ser = "dict"
      /\ OneScalarViolation(ret.target.c, ret.value))
       => /\ ~Raised(ret)
          /\ ret.result.k = "model"
          /\ ret.result.c = ret.target.c
          /\ \A name \in ViolatingFields(ret.target.c, ret.value) :
               ret.result.attrs[name] = DictGet(ret.value.items, PyStr(name))
  /\ (/\ ret.op = "validate"
      /\ ret.input.k = "dict"
      /\ OneScalarViolation(ret.self.c, ret.input))
       => AggregateFor(heap, ret.raised, ret.self.c,
                       ViolatingFields(ret.self.c, ret.input))

\* C3 witness: the instance made from {"a_field": "abc", "x": -1} was
\* validated and the aggregate error holds an error for x and none for a_field.
C3_Witness ==
  /\ ret.op = "validate"
  /\ ret.input = Mapping(<< <<"a_field", PyStr("abc")>>, <<"x", PyInt(-1)>> >>)
  /\ ret.self.c = "TestModelA"
  /\ ret.self.attrs["x"] = PyInt(-1)
  /\ IsModelValidationError(ret.raised)
  /\ get_errors(heap, ret.raised.id, <<"x">>) # <<>>
  /\ get_errors(heap, ret.raised.id, <<"a_field">>) = <<>>

\* The fields of class c whose deserialization from the mapping raises a
\* ValidationError.
FailingFields(c, mapping) ==
  {name \in field_names(c) :
     IsValidationError(deserialize_value("dict", <<>>,
                                         DictGet(mapping.items, PyStr(name)),
                                         FieldOf(c, name).type).raised)}

\* C4: in deserialize_model a ValidationError raised while one field is
\* deserialized does not stop the pass: every failing field's error is recorded
\* under the field's name in one aggregate error raised at the end, which has no
\* child for a field that was deserialized.
C4_FailingFieldsAggregated ==
  (/\ ret.op = "deserialize_model"
   /\ ret.ser = "dict"
   /\ ret.value.k = "dict"
   /\ ret.target.c \in ModelClasses
   /\ FailingFields(ret.target.c, ret.value) # {})
    => /\ IsModelValidationError(ret.raised)
       /\ DOMAIN heap[ret.raised.id].field_errors
            = {<<name>> : name \in FailingFields(ret.target.c, ret.value)}

\* Why deserialize_model(value, target) fails before any field is read, if it
\* does: the text is not JSON, the value is no mapping, the type specifier is
\* missing, the tag is unknown.
TopLevelFailure(ser, value, target) ==
  LET loaded == IF ser = "json" THEN json_loads(value) ELSE Val(value)
      v == loaded.value
      group == target.k = "class" /\ target.c \in PolymorphicModels
      key == PyStr(type_specifier_name(target.c))
      tags == {PyStr(types_to_model_classes(target.c)[i][1]) :
                 i \in 1..Len(types_to_model_classes(target.c))}
  IN IF loaded.raised.type = "ValueError" THEN "Value is not a valid JSON"
     ELSE IF Raised(loaded) \/ IsNone(v) THEN "none"
     ELSE IF v.k # "dict" THEN "Model deserialization requires mapping type"
     ELSE IF ~group THEN "none"
     ELSE IF ~DictHas(v.items, key) THEN "Polymorphic model requires type specifier"
     ELSE IF DictGet(v.items, key) \notin tags THEN "is not in allowed types"
     ELSE "none"

\* C5: every validation failure that leaves deserialize_model is an aggregate
\* error; input that is no mapping, JSON text that does not parse, a missing
\* type specifier and an unknown tag each leave it as a fresh aggregate whose
\* direct errors are exactly the one simple ValidationError and which has no
\* children.
C5_TopLevelFailureWrapped ==
  ret.op = "deserialize_model" =>
    /\ IsValidationError(ret.raised) => IsModelValidationError(ret.raised)
    /\ TopLevelFailure(ret.ser, ret.value, ret.target) # "none" =>
         /\ IsModelValidationError(ret.raised)
         /\ ret.raised.id = Len(heap)
         /\ IsRoot(heap, ret.raised.id)
         /\ Len(heap[ret.raised.id].errors) = 1
         /\ heap[ret.raised.id].errors[1].type = "ValidationError"
         /\ heap[ret.raised.id].errors[1].msg.what
              = TopLevelFailure(ret.ser, ret.value, ret.target)
         /\ heap[ret.raised.id].field_errors = EmptyMap

\* C5 witness: JSON text that does not parse left deserialize_model as an
\* aggregate error with one direct error.
C5_Witness ==
  /\ ret.op = "deserialize_model"
  /\ ret.ser = "json"
  /\ ret.value = PyStr("{invalid json")
  /\ IsModelValidationError(ret.raised)
  /\ Len(heap[ret.raised.id].errors) = 1

(***************************************************************************)
(* Claims about validation.                                                *)
(***************************************************************************)
\* The fields of the instance whose validation fails.
InvalidFields(self) ==
  {name \in field_names(self.c) :
     Raised(Field_validate(<<>>, FieldOf(self.c, name), self.attrs[name]))}

\* The failure of a field is under the field's name: a simple error in the
\* errors of the child, an aggregate error as the child itself.
RecordedUnder(h, parent, self, name) ==
  LET f == Field_validate(<<>>, FieldOf(self.c, name), self.attrs[name]).raised
      child == h[parent].field_errors[<<name>>]
  IN IF IsModelValidationError(f)
     THEN MVE_bool(h, child)
     ELSE h[child] = [errors |-> <<f>>, field_errors |-> EmptyMap]

\* C6: Model.validate validates every declared field even after one failed,
\* records each failure under the field's name in a fresh aggregate error, and
\* raises it iff at least one field failed; the aggregate has a child exactly
\* for the failing fields.
C6_ValidateAggregates ==
  ret.op = "validate" =>
    IF InvalidFields(ret.self) = {} THEN ~Raised(ret)
    ELSE /\ IsModelValidationError(ret.raised)
         /\ IsRoot(heap, ret.raised.id)
         /\ heap[ret.raised.id].errors = <<>>
         /\ DOMAIN heap[ret.raised.id].field_errors
              = {<<name>> : name \in InvalidFields(ret.self)}
         /\ \A name \in InvalidFields(ret.self) :
              RecordedUnder(heap, ret.raised.id, ret.self, name)

\* C6 witness: an instance with two failing fields was validated, and a valid
\* one was.
C6_Witness ==
  /\ ret.op = "validate"
  /\ ret.self.c = "TestModelA"
  /\ InvalidFields(ret.self) = {"a_field", "x"}
  /\ IsModelValidationError(ret.raised)
  /\ DOMAIN heap[ret.raised.id].field_errors = {<<"a_field">>, <<"x">>}

\* value does not pass the validation of type t.
Invalid(t, value) == ~IsNone(t) /\ Raised(Type_validate(<<>>, t, value))

\* The key of the child for an element: the index, counted from 0, in a list;
\* the element in a set.
ElementKey(t, xs, i) == IF t.k = "ListType" THEN <<ToString(i - 1)>> ELSE <<xs[i]>>

\* C7: validating a List with an item sub-type, some elements being invalid,
\* raises an aggregate error (not a simple one) with a child at the index of
\* each invalid element that holds exactly that element's error, and no child
\* at the index of a valid element; for a Set the key is the element's value.
C7_ItemFailuresAggregated ==
  (/\ ret.op = "type_validate"
   /\ ret.type.k \in {"ListType", "SetType"}
   /\ ~IsNone(ret.type.item_type)
   /\ IsInstance(ret.value, ret.type)
   /\ \E i \in 1..Len(ret.value.xs) : Invalid(ret.type.item_type, ret.value.xs[i]))
    => /\ IsModelValidationError(ret.raised)
       /\ \A i \in 1..Len(ret.value.xs) :
            LET key == ElementKey(ret.type, ret.value.xs, i)
                node == heap[ret.raised.id]
            IN IF Invalid(ret.type.item_type, ret.value.xs[i])
               THEN /\ key \in DOMAIN node.field_errors
                    /\ Len(heap[node.field_errors[key]].errors) = 1
               ELSE key \notin DOMAIN node.field_errors

\* C8: validating a Dict with a key and/or value sub-type checks every pair and
\* raises an aggregate error in which the node at the key of each failing pair
\* has the failure under "key" when the key is invalid and under "value" when
\* the value is invalid; a pair that passes has no node.
C8_PairFailuresAggregated ==
  (/\ ret.op = "type_validate"
   /\ ret.type.k = "DictType"
   /\ IsInstance(ret.value, ret.type)
   /\ \E i \in 1..Len(ret.value.items) :
        \/ Invalid(ret.type.key_type, ret.value.items[i][1])
        \/ Invalid(ret.type.value_type, ret.value.items[i][2]))
    => /\ IsModelValidationError(ret.raised)
       /\ \A i \in 1..Len(ret.value.items) :
            LET key == <<ret.value.items[i][1].s>>
                node == heap[ret.raised.id]
                bad_key == Invalid(ret.type.key_type, ret.value.items[i][1])
                bad_value == Invalid(ret.type.value_type, ret.value.items[i][2])
            IN IF bad_key \/ bad_value
               THEN /\ key \in DOMAIN node.field_errors
                    /\ bad_key <=> (<<"key">> \in
                         DOMAIN heap[node.field_errors[key]].field_errors)
                    /\ bad_value <=> (<<"value">> \in
                         DOMAIN heap[node.field_errors[key]].field_errors)
               ELSE key \notin DOMAIN node.field_errors

(***************************************************************************)
(* Claims about the error tree.                                            *)
(***************************************************************************)

HasErrorBelow(h, n) == \E m \in Reach(h, n) : h[m].errors # <<>>

\* C10: a node is truthy iff it or one of its descendants holds a direct error.
C10_TruthyIffErrorBelow ==
  ret.op = "bool" => (ret.value <=> HasErrorBelow(heap, ret.self))

\* The child of node n at one segment taken as an opaque key, 0 when there is
\* none.  No key of a tree is an int: an int never gets past path.split.
ChildAt(h, n, seg) ==
  IF seg.k = "str" /\ seg.cs \in DOMAIN h[n].field_errors
  THEN h[n].field_errors[seg.cs]
  ELSE 0

\* The node reached from n by following each segment, 0 when one is missing.
RECURSIVE Follow(_, _, _)
Follow(h, n, segs) ==
  IF segs = <<>> \/ n = 0 THEN n
  ELSE Follow(h, ChildAt(h, n, Head(segs)), Tail(segs))

\* The direct errors of that node, none when a segment is missing.
ErrorsAt(h, n, segs) ==
  With(Follow(h, n, segs), LAMBDA m : IF m = 0 THEN <<>> ELSE h[m].errors)

\* C11: get_errors with an empty path returns the direct errors of the node;
\* with a non-empty path the direct errors of the node reached by following
\* each segment, and an empty sequence, without failing, when a segment has no
\* child; it creates no node and leaves the tree unchanged.
C11_GetErrorsFollowsSegments ==
  [][ret'.op = "get_errors" =>
       /\ ret'.raised = NoExc
       /\ ret'.value = ErrorsAt(heap, ret'.self, ret'.args)
       /\ heap' = heap
     ]_vars

\* The nodes a call added to the heap hold no error but at the node `at`, and
\* the direct errors of every other node are as before.
OtherErrorsUnchanged(h, h2, at) ==
  /\ Len(h2) >= Len(h)
  /\ \A i \in Nodes(h) \ {at} : h2[i].errors = h[i].errors
  /\ \A i \in Nodes(h2) \ (Nodes(h) \cup {at}) : h2[i].errors = <<>>

\* What add_path_error(e, k1..kn) is to do to the tree of `self`, h before
\* and h2 after: e appended at self for the empty path; else the
\* add_sub_error of e at k1..kn (a simple e ends the errors of that node, an
\* aggregate e is that node, or TypeError with the tree unchanged when there
\* was a node), the direct errors of every other node unchanged.
PathErrorAdded(h, h2, self, segs, e, raised) ==
  IF segs = <<>>
  THEN raised = NoExc /\ h2 = add_error(h, self, e)
  ELSE IF IsModelValidationError(e)
       THEN IF Follow(h, self, segs) # 0
            THEN raised.type = "TypeError" /\ h2 = h
            ELSE raised = NoExc /\ Follow(h2, self, segs) = e.id
       ELSE /\ raised = NoExc
            /\ Follow(h2, self, segs) # 0
            /\ ErrorsAt(h2, self, segs) = Append(ErrorsAt(h, self, segs), e)
            /\ OtherErrorsUnchanged(h, h2, Follow(h2, self, segs))

\* C12: add_path_error(e) with an empty path does what add_error(e) does; with
\* a path k1..kn it creates the missing nodes k1..k(n-1) and does
\* add_sub_error(kn, e) on the last, so that get_errors(k1..kn) then ends with
\* e and the direct errors of every other node are unchanged; for_path(e,
\* *path), which exceptions.py names for_field, returns a fresh tree with
\* exactly that done to it.
C12_AddPathError ==
  [][/\ ret'.op = "add_path_error" =>
          PathErrorAdded(heap, heap', ret'.self, ret'.args, ret'.error, ret'.raised)
     /\ ret'.op = "for_field" =>
          /\ ret'.id = Len(heap) + 1
          /\ Len(heap') > Len(heap)
          /\ PathErrorAdded(Append(heap, NewNode), heap', ret'.id, ret'.args,
                            ret'.error, ret'.raised)
    ]_vars

\* e is one of the direct errors of the node at segs below n.
ReturnedAt(h, n, segs, e) ==
  \E i \in 1..Len(ErrorsAt(h, n, segs)) : ErrorsAt(h, n, segs)[i] = e

\* C13: each segment given to add_path_error and get_errors is one opaque
\* hashable key: a simple error added under one key, a str with a dot in it or
\* an int as well, is recorded at the direct child for that key and is never
\* returned for the path of that key's dot-separated pieces, nor one added
\* under the two-segment path for the key with the dot.
C13_SegmentsAreOpaqueKeys ==
  [][(ret'.op = "add_path_error" /\ ~IsModelValidationError(ret'.error)) =>
       /\ Len(ret'.args) = 1 =>
            /\ ret'.raised = NoExc
            /\ ChildAt(heap', ret'.self, ret'.args[1]) # 0
            /\ ReturnedAt(heap', ret'.self, ret'.args, ret'.error)
       /\ ret'.args = <<PyChars(<<"a", ".", "b">>)>> =>
            ~ReturnedAt(heap', ret'.self, <<PyChars(<<"a">>), PyChars(<<"b">>)>>,
                        ret'.error)
       /\ ret'.args = <<PyChars(<<"a">>), PyChars(<<"b">>)>> =>
            ~ReturnedAt(heap', ret'.self, <<PyChars(<<"a", ".", "b">>)>>, ret'.error)
    ]_vars

(***************************************************************************)
(* Claims about model.py.                                                  *)
(***************************************************************************)

\* The classes of a chain that declare the name.
Declaring(chain, name) ==
  {i \in 1..Len(chain) : \E j \in 1..Len(chain[i]) : chain[i][j][1] = name}

Lowest(S) == CHOOSE i \in S : \A j \in S : i <= j
Highest(S) == CHOOSE i \in S : \A j \in S : i >= j

\* Where a class declares a name, and the descriptor it declares at it.
IndexIn(body, name) == CHOOSE j \in 1..Len(body) : body[j][1] = name
DescriptorIn(body, name) == body[IndexIn(body, name)][2]

\* name is declared before other: first in a more basic class, or first in
\* the same class and earlier in its body.
DeclaredBefore(chain, name, other) ==
  With(Lowest(Declaring(chain, name)), LAMBDA i :
    With(Lowest(Declaring(chain, other)), LAMBDA k :
      \/ i < k
      \/ i = k /\ IndexIn(chain[i], name) < IndexIn(chain[i], other)))

\* C14: the field map of the last class of a chain holds each name declared
\* in the chain once, with the descriptor of the most derived class that
\* declares it, the names in the order of their first declaration: those of
\* the ancestors in their order, then those the subclass introduces in the
\* order it declares them.
C14_FieldsMerged ==
  ret.op = "ModelMeta" =>
    /\ {ret.fields[p][1] : p \in 1..Len(ret.fields)} =
         {name \in FieldNames : Declaring(ret.chain, name) # {}}
    /\ \A p, q \in 1..Len(ret.fields) :
         p < q => DeclaredBefore(ret.chain, ret.fields[p][1], ret.fields[q][1])
    /\ \A p \in 1..Len(ret.fields) :
         ret.fields[p][2] =
           DescriptorIn(ret.chain[Highest(Declaring(ret.chain, ret.fields[p][1]))],
                        ret.fields[p][1])

\* C14 witness: a subclass declares a new name and then a name of its base
\* again, and a class below inherits both.
C14_Witness ==
  /\ ret.op = "ModelMeta"
  /\ Len(ret.chain) = 3
  /\ [i \in 1..3 |-> [j \in 1..Len(ret.chain[i]) |-> ret.chain[i][j][1]]] =
       << <<"a">>, <<"b", "a">>, <<>> >>
  /\ ret.fields[1] = <<"a", Field(IntType(PyInt(2), PyNone), TRUE, type_default)>>
  /\ ret.fields[2][1] = "b"

\* What native_type() makes for the types of FieldTypes: False, 0, '', [],
\* and for a model type an instance of its class with every field at its
\* default.
NativeDefault(t) ==
  IF t.k = "BooleanType" THEN PyBool(FALSE)
  ELSE IF t.k = "IntType" THEN PyInt(0)
  ELSE IF t.k = "StringType" THEN PyStr("")
  ELSE IF t.k = "ListType" THEN PyList(<<>>)
  ELSE PyModel("TestModelA", [a_field |-> PyStr(""), x |-> PyInt(0)])

\* C15: create_default_value returns what calling the default returns when a
\* default is given and is callable, the default itself when one is given and
\* is not callable, whatever the required flag; with no default given, the
\* default_value of the type when the field is required and None when not.
C15_CreateDefaultValue ==
  ret.op = "create_default_value" =>
    With(ret.field, LAMBDA f :
      IF f.default.k = "callable" THEN ret.value = f.default.returns
      ELSE IF f.default.k = "class"
           THEN ret.value = PyModel("TestModelB", [a_field |-> PyInt(0), y |-> PyInt(0)])
      ELSE IF f.default.k # "type_default" THEN ret.value = f.default
      ELSE IF f.required THEN ret.value = NativeDefault(f.type)
      ELSE ret.value = PyNone)

\* C15 witness: a field that is not required and has a literal default gives
\* the literal.
C15_Witness ==
  /\ ret.op = "create_default_value"
  /\ ~ret.field.required
  /\ ret.field.default = PyInt(10)
  /\ ret.value = PyInt(10)

\* C16: Field.validate of None raises a simple ValidationError when the
\* field is required and returns, the type's validate not called (no node is
\* made, nothing raised), when it is not; of any other value it does what one
\* call of the type's validate does, failing iff that fails, with its error.
C16_FieldValidate ==
  [][ret'.op = "field_validate" =>
       IF IsNone(ret'.value)
       THEN /\ heap' = heap
            /\ IF ret'.field.required
               THEN /\ ret'.raised.type = "ValidationError"
                    /\ ret'.raised.msg.what = "value is required"
               ELSE ret'.raised = NoExc
       ELSE With(Type_validate(heap, ret'.field.type, ret'.value), LAMBDA t :
              /\ Raised(ret') <=> Raised(t)
              /\ ret'.raised = t.raised
              /\ heap' = t.h)
     ]_vars

\* C16 witness: a present value that is false was handed to its type, which
\* accepted it, and a present value was refused by its type.
C16_Witness ==
  /\ ret.op = "field_validate"
  /\ ret.field.required
  /\ \/ ret.value = PyInt(0) /\ ret.field.type.k = "IntType" /\ ret.raised = NoExc
     \/ ret.value = PyInt(-1) /\ ret.field.type.k = "IntType"
        /\ ret.raised.type = "ValidationError"

\* The number of calls of create_default_value for the field of a name.
CallsFor(calls, name) == Cardinality({i \in 1..Len(calls) : calls[i] = name})

\* C17: after Model(**kwargs) the attributes of the instance are exactly the
\* field names of its class: a field holds the keyword's value when the
\* keyword was given, create_default_value not called for it, and else what
\* one call of create_default_value returned; a keyword that names no field
\* makes no attribute.
C17_ModelInit ==
  ret.op = "Model" =>
    /\ ret.value.k = "model" /\ ret.value.c = ret.c
    /\ DOMAIN ret.value.attrs = field_names(ret.c)
    /\ \A name \in field_names(ret.c) :
         IF name \in DOMAIN ret.kwargs
         THEN /\ ret.value.attrs[name] = ret.kwargs[name]
              /\ CallsFor(ret.calls, name) = 0
         ELSE /\ ret.value.attrs[name] = create_default_value(FieldOf(ret.c, name))
              /\ CallsFor(ret.calls, name) = 1
    /\ \A name \in DOMAIN ret.kwargs \ field_names(ret.c) :
         name \notin DOMAIN ret.value.attrs

\* C17 witness: one field given by keyword, one left to its default, and a
\* keyword that names no field.
C17_Witness ==
  /\ ret.op = "Model"
  /\ DOMAIN ret.kwargs = {"a", "zz"}
  /\ ret.value.attrs["a"] = ret.kwargs["a"]
  /\ ret.value.attrs["b"] = PyStr("abc")
  /\ ret.calls = <<"b">>

\* C18: a == b is true iff a and b are of the same exact class and every
\* field value compares equal; an instance of a subclass never equals one of
\* its base class; a != b is the negation of a == b.
C18_EqualityIsStructural ==
  ret.op = "compare" =>
    /\ ret.eq <=> /\ ret.a.c = ret.b.c
                  /\ \A name \in field_names(ret.a.c) :
                       ret.a.attrs[name] = ret.b.attrs[name]
    /\ (ret.a.c # ret.b.c /\ (IsSubclass(ret.a.c, ret.b.c) \/ IsSubclass(ret.b.c, ret.a.c)))
         => ~ret.eq
    /\ ret.ne <=> ~ret.eq

\* C18 witness: an instance of the subclass and one of the base class with
\* the same field values are not equal.
C18_Witness ==
  /\ ret.op = "compare"
  /\ ret.a.c = "TestSubModel" /\ ret.b.c = "TestModel"
  /\ ret.a.attrs = ret.b.attrs
  /\ ~ret.eq /\ ret.ne

\* The class a group maps a tag to, "None" when the tag is not in its map.
Mapped(g, type_name) ==
  With(types_to_model_classes(g), LAMBDA tm :
    IF type_name.k = "str" /\ \E i \in 1..Len(tm) : tm[i][1] = type_name.s
    THEN tm[CHOOSE i \in 1..Len(tm) : tm[i][1] = type_name.s][2]
    ELSE "None")

\* C19: a group called with a tag of its map returns a new instance of
\* exactly the mapped class, built from the keywords given; called with a tag
\* that is not in the map it fails with an error and builds no instance.
C19_Factory ==
  ret.op = "factory" =>
    IF Mapped(ret.g, ret.type_name) # "None"
    THEN /\ ret.raised = NoExc
         /\ ret.value.k = "model"
         /\ ret.value.c = Mapped(ret.g, ret.type_name)
         /\ DOMAIN ret.value.attrs = field_names(ret.value.c)
         /\ \A name \in field_names(ret.value.c) :
              ret.value.attrs[name] =
                IF name \in DOMAIN ret.kwargs THEN ret.kwargs[name]
                ELSE create_default_value(FieldOf(ret.value.c, name))
    ELSE /\ ret.raised.type = "ValueError"
         /\ ret.value = PyNone
         /\ ret.calls = <<>>

\* C19 witness: a known tag with keywords gave an instance that holds them.
C19_Witness ==
  /\ ret.op = "factory"
  /\ ret.g = "TestModelAB" /\ ret.type_name = PyStr("a")
  /\ ret.kwargs = [a_field |-> PyStr("abc"), x |-> PyInt(5)]
  /\ ret.value = PyModel("TestModelA", [a_field |-> PyStr("abc"), x |-> PyInt(5)])

\* C is a member class of the group or a subclass of one.
MemberOrDerived(C, g) ==
  \E i \in 1..Len(types_to_model_classes(g)) :
    IsSubclass(C, types_to_model_classes(g)[i][2])

\* C20: issubclass(C, G) succeeds for every member class of G and every
\* subclass of a member, and fails for every class that is neither.
C20_SubclassCheck ==
  ret.op = "issubclass" => (ret.value <=> MemberOrDerived(ret.C, ret.g))

\* C20 as amended: issubclass(C, G) succeeds for the members of G and their
\* subclasses, and fails for every other class but G itself and the classes
\* registered with G (and their subclasses), for which it succeeds.
C20_SubclassCheckButGroupItself ==
  ret.op = "issubclass" =>
    (ret.value <=>
       \/ MemberOrDerived(ret.C, ret.g)
       \/ ret.C = ret.g
       \/ \E entry \in ret.registry : entry[1] = ret.g /\ IsSubclass(ret.C, entry[2]))

\* C20 witness: a subclass of a member passes and the base of the members
\* fails.
C20_Witness ==
  /\ ret.op = "issubclass"
  /\ ret.g = "TestModelAB"
  /\ ret.C = "TestSubModelA"
  /\ ret.value
  /\ ~issubclass_group("Model", ret.g, ret.registry)

\* The member classes of a group that C is or derives from.
MembersAbove(C, g) ==
  {types_to_model_classes(g)[i][2] : i \in 1..Len(types_to_model_classes(g))}
    \cap {m \in Classes : IsSubclass(C, m)}

\* The tag a group maps to a member class.
TagOf(g, m) ==
  With(types_to_model_classes(g), LAMBDA tm :
    PyStr(tm[CHOOSE i \in 1..Len(tm) : tm[i][2] = m][1]))

\* C21: get_model_type_for_class(C) returns the own tag of a member class C,
\* a member ancestor or not, so that get_model_class_for_type of it is C; for
\* a subclass of members that is no member, the tag of the member with the
\* longest ancestor chain among those it derives from; and no tag for a class
\* that derives from no member.
C21_MostSpecificTag ==
  ret.op = "get_model_type_for_class" =>
    IF IsMember(ret.C, ret.g)
    THEN ret.value = TagOf(ret.g, ret.C) /\ ret.back = ret.C
    ELSE IF MembersAbove(ret.C, ret.g) # {}
         THEN \E m \in MembersAbove(ret.C, ret.g) :
                /\ \A n \in MembersAbove(ret.C, ret.g) : Len(mro(n)) <= Len(mro(m))
                /\ ret.value = TagOf(ret.g, m)
         ELSE ret.value = PyNone

\* C21 witness: a member whose base is a member too, listed before it, has
\* its own tag.
C21_Witness ==
  /\ ret.op = "get_model_type_for_class"
  /\ ret.g = "TestModelAS" /\ ret.C = "TestSubModelA"
  /\ ret.value = PyStr("s")
  /\ ret.back = "TestSubModelA"

(***************************************************************************)
(* Claims about types.py.                                                  *)
(***************************************************************************)

\* The value lies within the bounds of a ComparableType.
WithinBounds(t, value) ==
  /\ IsNone(t.min_value) \/ value.n >= t.min_value.n
  /\ IsNone(t.max_value) \/ value.n <= t.max_value.n

\* C22 as stated: IntType.validate accepts a value only when its type is int
\* itself, so a bool, a float, a str and None are rejected.
C22_IntIsStrict ==
  (ret.op = "type_validate" /\ ret.type.k = "IntType" /\ ret.raised.type = "none")
    => ret.value.k = "int"

\* C22 amended: IntType.validate accepts a value exactly when it is an
\* instance of int, which a bool is, and lies within the bounds; a float, a
\* str and None are rejected with a ValidationError.
C22_IntIsInstance ==
  (ret.op = "type_validate" /\ ret.type.k = "IntType") =>
    IF ret.value.k \in {"int", "bool"} /\ WithinBounds(ret.type, ret.value)
    THEN ret.raised.type = "none"
    ELSE IsValidationError(ret.raised)

\* C22 witness: IntType().validate(True) has returned without an error.
C22_Witness ==
  /\ ret.op = "type_validate"
  /\ ret.type = IntType(PyNone, PyNone)
  /\ ret.value = PyBool(TRUE)
  /\ ret.raised.type = "none"

(***************************************************************************)
(* Claims about deserialization into an existing instance.                 *)
(***************************************************************************)

\* The mapping deserialize_model reads the fields from.
MappingOf(ser, value) == IF ser = "json" THEN json_loads(value).value ELSE value

\* C23: deserialize_model given an existing instance returns that instance,
\* not a new one, with every declared field set from the mapping: to the
\* deserialized value of its key, and to None where the mapping has no such
\* key, whatever the instance held before.
C23_DeserializeIntoInstance ==
  (ret.op = "deserialize_into" /\ ret.raised.type = "none" /\ ~IsNone(ret.result)) =>
    /\ "id" \in DOMAIN ret.result
    /\ ret.result.id = ret.target.id
    /\ ret.result.c = ret.target.c
    /\ \A i \in 1..Len(fields(ret.target.c)) :
         With(fields(ret.target.c)[i], LAMBDA f :
           With(MappingOf(ret.ser, ret.value).items, LAMBDA items :
             ret.result.attrs[f[1]] =
               IF DictHas(items, PyStr(f[1]))
               THEN deserialize_value(ret.ser, <<>>, DictGet(items, PyStr(f[1])),
                                      f[2].type).value
               ELSE PyNone))

\* C23 witness: an instance that held x = 10 came back from a mapping
\* without the key x, with x = None.
C23_Witness ==
  /\ ret.op = "deserialize_into"
  /\ ret.raised.type = "none"
  /\ ret.target = Object(1, ValidA)
  /\ ret.target.attrs["x"] = PyInt(10)
  /\ ret.value.k = "dict"
  /\ ~DictHas(ret.value.items, PyStr("x"))
  /\ ret.result = Object(1, PyModel("TestModelA", [a_field |-> PyStr("abc"), x |-> PyNone]))

(***************************************************************************)
(* Claims about field filtering.                                           *)
(***************************************************************************)

\* The keys of a mapping, in the order of insertion.
KeysOf(d) == [i \in 1..Len(d.items) |-> d.items[i][1]]

\* The names of the declared fields a filter accepts, in declaration order.
Accepted(model_class, fields_kw) ==
  With(iter_model_fields(model_class, fields_kw), LAMBDA fs :
    [i \in 1..Len(fs) |-> PyStr(fs[i][1])])

\* C24: serialize_model with a field filter (a container of names, or a
\* predicate over (name, field) pairs) returns a mapping whose keys are
\* exactly the declared fields the filter accepts, in declaration order, and
\* every declared field when no filter is given.
C24_FilteredFields ==
  (ret.op = "serialize_model_fields" /\ ret.raised.type = "none") =>
    KeysOf(ret.result) = Accepted(ret.value.c, ret.fields)

(***************************************************************************)
(* Claims about the JsonModelSerializer.                                   *)
(***************************************************************************)

\* A value JSON can hold as it is: None, an int, a bool, a str, a list of
\* such values, a dict of them under str keys, and here a model instance
\* whose field values are such values.
RECURSIVE JsonRepresentable(_)
JsonRepresentable(value) ==
  IF value.k \in {"none", "int", "bool", "str"} THEN TRUE
  ELSE IF value.k = "list" THEN \A i \in 1..Len(value.xs) : JsonRepresentable(value.xs[i])
  ELSE IF value.k = "dict"
       THEN \A i \in 1..Len(value.items) :
              value.items[i][1].k = "str" /\ JsonRepresentable(value.items[i][2])
  ELSE IF value.k = "model"
       THEN \A name \in DOMAIN value.attrs : JsonRepresentable(value.attrs[name])
  ELSE FALSE

\* C25: with the JsonModelSerializer, deserialize_model(serialize_model(x),
\* type(x)) returns an instance equal to x for every instance x of
\* JSON-representable field values, nested models, lists of nested models
\* and optional nested models that are None included.
C25_JsonRoundTrip ==
  (/\ ret.op = "json_deserialize_model"
   /\ JsonRepresentable(ret.source)
   /\ Conforms(ret.source, ModelType(ret.source.c)))
    => (~Raised(ret) /\ PyEq(ret.result, ret.source))

(***************************************************************************)
(* Claims about the tag of a polymorphic group.                            *)
(***************************************************************************)

\* serialize_model(x, model_type=G) for a group G and an instance x whose
\* class G has a tag for and which declares a field named as the
\* type-specifier key of G.
TagClash ==
  /\ ret.op = "serialize_model"
  /\ ret.model_type \in PolymorphicModels
  /\ ret.value.k = "model"
  /\ ~IsNone(get_model_type_for_class(ret.model_type, ret.value.c))
  /\ type_specifier_name(ret.model_type) \in field_names(ret.value.c)

\* C26: serialize_model through a polymorphic group writes the tag under the
\* type-specifier key after all fields, so for a class that declares a field
\* of that name the mapping holds the tag, not the value of the field, under
\* that key.
C26_TagWins ==
  TagClash =>
    /\ ~Raised(ret)
    /\ DictGet(ret.result.items, PyStr(type_specifier_name(ret.model_type)))
         = get_model_type_for_class(ret.model_type, ret.value.c)
    /\ Len(ret.result.items) = Len(fields(ret.value.c))

\* C26 witness: a TestTaggedModel with type = "zz" went through TestModelAT
\* and the mapping holds "type": "t".
C26_Witness ==
  /\ TagClash
  /\ ret.value = PyModel("TestTaggedModel", [type |-> PyStr("zz")])
  /\ ret.model_type = "TestModelAT"
  /\ ret.result = PyDict(<< <<PyStr("type"), PyStr("t")>> >>)

(***************************************************************************)
(* Claims about a ModelType made with the name of a class.                 *)
(***************************************************************************)

\* C27 as stated: the name is not resolved when the ModelType is made, and
\* over any sequence of uses (model_class, native_type, validate, serialize,
\* deserialize) the resolver is called at most once.
C27_ResolverCalledAtMostOnce ==
  ret.op # "init" => ret.imports <= 1

\* C27 amended: the name is not resolved when the ModelType is made; once a
\* use has got a class, no later use calls the resolver and every later use
\* gets that same class, whatever the name is bound to by then.  (A
\* resolution that fails is not kept: the next use calls the resolver again.)
C27_ResolvedClassIsKept ==
  /\ [](ret.op = "ModelType" => ret.imports = 0)
  /\ [][(ret.op # "init" /\ ~IsNone(ret.yielded))
          => (ret'.yielded = ret.yielded /\ ret'.imports = ret.imports)]_vars

\* C27 witness: a ModelType made with a name has been used three times, and
\* the resolver was called in the first use only.
C27_Witness ==
  /\ ret.op = "deserialize_value"
  /\ ret.uses = 3
  /\ ret.imports = 1
  /\ ret.yielded = ClassRef("TestModelA")
  /\ ret.self._model_class = ClassRef("TestModelA")

(***************************************************************************)
(* Claims about the round trip of a subclass through a group.              *)
(***************************************************************************)

\* serialize_model(x, model_type=G) went to deserialize_model with G, for an
\* x whose class is no member of G and derives from a member.
SubclassViaGroup ==
  /\ ret.op = "deserialize_model"
  /\ ret.source.k = "model"
  /\ ret.target.k = "class"
  /\ ret.target.c \in PolymorphicModels
  /\ ~IsMember(ret.source.c, ret.target.c)
  /\ MembersAbove(ret.source.c, ret.target.c) # {}

\* The member of g with the longest mro among those C derives from.
NearestMember(C, g) ==
  CHOOSE m \in MembersAbove(C, g) :
    \A n \in MembersAbove(C, g) : Len(mro(n)) <= Len(mro(m))

\* C28 as stated: for a group G and an x whose class derives from a member
\* of G and is no member, deserialize_model(serialize_model(x, model_type=G),
\* G) returns an instance of the class of x that is equal to x.
C28_SubclassRoundTrip ==
  SubclassViaGroup =>
    (~Raised(ret) /\ ret.result.c = ret.source.c /\ PyEq(ret.result, ret.source))

\* C28 amended: it returns an instance of the member class whose tag x was
\* written with, the member with the longest ancestor chain among those the
\* class of x derives from, holding the values of x for the fields that
\* member declares; it is not of the class of x and not equal to x.  (The
\* key of G not empty, no field of x named as it, values as C1 wants them.)
C28_SubclassComesBackAsMember ==
  (SubclassViaGroup /\ NoTagClash(ret.source, ret.target.c)) =>
    /\ ~Raised(ret)
    /\ ret.result.k = "model"
    /\ ret.result.c = NearestMember(ret.source.c, ret.target.c)
    /\ \A name \in field_names(ret.result.c) :
         PyEq(ret.result.attrs[name], ret.source.attrs[name])
    /\ ret.result.c # ret.source.c
    /\ ~PyEq(ret.result, ret.source)

\* C28 witness: a TestSubSubModelA went through TestModelAS, which has
\* TestModelA and TestSubModelA, and came back as a TestSubModelA.
C28_Witness ==
  /\ SubclassViaGroup
  /\ ret.source = SubSubA
  /\ ret.target.c = "TestModelAS"
  /\ ~Raised(ret)
  /\ ret.result = PyModel("TestSubModelA", SubSubA.attrs)

\* A field of the instance given fails to deserialize from the mapping: its
\* deserialize_value raises a ValidationError.
FieldFailed ==
  /\ ret.op = "deserialize_into"
  /\ ret.ser = "dict"
  /\ ret.value.k = "dict"
  /\ \E i \in 1..Len(fields(ret.target.c)) :
       With(fields(ret.target.c)[i], LAMBDA f :
         IsValidationError(
           deserialize_value(ret.ser, <<>>, DictGet(ret.value.items, PyStr(f[1])),
                             f[2].type).raised))

\* C29: when deserialize_model is given an existing instance and a field
\* fails to deserialize, a validation error is raised and the instance is
\* left as it was: every declared field holds the value it had before the
\* call, the fields that deserialized included.
C29_FailureLeavesInstanceUnchanged ==
  FieldFailed => (IsValidationError(ret.raised) /\ ret.after = ret.target)

(***************************************************************************)
(* Claims about the error tree over a sequence of calls.                   *)
(***************************************************************************)

\* s is the beginning of t.
IsPrefix(s, t) == Len(s) <= Len(t) /\ SubSeq(t, 1, Len(s)) = s

\* C30: whatever call is made on an error tree (add_error,
\* get_or_create_field, add_sub_error, add_path_error, get_errors, failing
\* or not), no node goes away, a child that is at a key stays the same node
\* at that key, and the direct errors of every node only grow at the end,
\* the earlier errors staying in their order.
C30_TreeOnlyGrows ==
  [][/\ Len(heap') >= Len(heap)
     /\ \A n \in Nodes(heap) :
          /\ IsPrefix(heap[n].errors, heap'[n].errors)
          /\ \A key \in DOMAIN heap[n].field_errors :
               /\ key \in DOMAIN heap'[n].field_errors
               /\ heap'[n].field_errors[key] = heap[n].field_errors[key]]_vars

\* C30 witness: add_path_error with an aggregate for a key that has a child
\* has failed, on a tree one node of which holds two errors.
C30_Witness ==
  /\ ret.op = "add_path_error"
  /\ ret.raised.type = "TypeError"
  /\ DOMAIN heap[ret.self].field_errors # {}
  /\ \E n \in Nodes(heap) : Len(heap[n].errors) = 2

====
